---------------------------- MODULE Spec2Model ----------------------------
(***************************************************************************)
(* A model of the three batch stages of the marketing-analytics            *)
(* repository:                                                             *)
(*   - the cleaner   (1_data_cleaning_pipeline.py, POTDataCleaner),        *)
(*   - the analyzer  (2_ml_analysis_final.py, AdaptiveMLAnalyzer).         *)
(* Strings are sequences of one-character strings, numbers that are not    *)
(* integers are exact reduced fractions <<numerator, denominator>>.        *)
(***************************************************************************)
EXTENDS Integers, Sequences, FiniteSets, TLC

VARIABLES
    columns,    \* resolver: df.columns, the ordered headers of a dataset
    keywords,   \* resolver: the keyword list handed to find_column
    resolved,   \* resolver: the results of the calls of find_column so far
    raw,        \* normalizer: the raw cell of a rate column
    norm,       \* normalizer: per rate normalizer, the cleaned cell
    renorm,     \* normalizer: per rate normalizer, the cleaned cell cleaned again
    sales,      \* the rows of the cleaned sales pipeline table, counted
    pc,         \* analyzer: the step run_analysis is about to execute
    fields,     \* analyzer: the column fields load_all_data resolved (not None)
    insights,   \* analyzer: self.insights
    raised,     \* analyzer: the steps whose try body raised, with the cause
    locals,     \* analyzer: local variables of generate_forecast, once it ran
    outcome,    \* analyzer: what run_analysis returned or raised
    cpc,        \* cleaner: the step run_full_pipeline is about to execute
    excel,      \* cleaner: the workbook at excel_path
    data,       \* cleaner: the keys of self.data
    kpis,       \* cleaner: self.data['KPIs']
    files,      \* cleaner: the files written to the output directory
    cresult,    \* cleaner: what run_full_pipeline returned
    saved,      \* analyzer: the content of ml_insights_final.json on disk
    dpc,        \* dashboard: the step the script is about to execute
    dash        \* dashboard: the attributes of the POTDashboard object

resolverVars == <<columns, keywords, resolved>>

normVars == <<raw, norm, renorm>>

analyzerVars == <<pc, fields, insights, raised, locals, outcome>>

cleanerVars == <<cpc, excel, data, kpis, files, cresult>>

dashVars == <<saved, dpc, dash>>

vars == <<resolverVars, normVars, sales, analyzerVars, cleanerVars, dashVars>>

-----------------------------------------------------------------------------
(* Generic helpers                                                         *)

SeqsUpTo(S, n) == UNION {[1..k -> S] : k \in 0..n}

NonEmptySeqsUpTo(S, n) == UNION {[1..k -> S] : k \in 1..n}

\* Python's None and a value that is present.
None == [some |-> FALSE]

Some(x) == [some |-> TRUE, val |-> x]

\* A dict seen as a function from its keys.
EmptyMap == [k \in {} |-> k]

Put(map, key, value) ==
    [k \in DOMAIN map \cup {key} |-> IF k = key THEN value ELSE map[k]]

-----------------------------------------------------------------------------
(* Strings                                                                 *)

\* str.lower() on one character of the alphabets used below.
LowerChar(c) ==
    CASE c = "A" -> "a"
      [] c = "B" -> "b"
      [] c = "C" -> "c"
      [] c = "D" -> "d"
      [] c = "E" -> "e"
      [] c = "F" -> "f"
      [] c = "R" -> "r"
      [] c = "S" -> "s"
      [] c = "U" -> "u"
      [] c = "V" -> "v"
      [] OTHER -> c

\* str.lower()
Lower(s) == [i \in 1..Len(s) |-> LowerChar(s[i])]

\* Python's `needle in haystack` on strings.
Contains(haystack, needle) ==
    \E off \in 0..(Len(haystack) - Len(needle)) :
        \A j \in 1..Len(needle) : haystack[off + j] = needle[j]

-----------------------------------------------------------------------------
(* AdaptiveMLAnalyzer.find_column                                          *)

\* The inner loop `for keyword in keywords: if keyword.lower() in col_lower`.
RECURSIVE KeywordLoop(_, _, _)
KeywordLoop(col_lower, kws, k) ==
    IF k > Len(kws) THEN FALSE
    ELSE IF Contains(col_lower, Lower(kws[k])) THEN TRUE
    ELSE KeywordLoop(col_lower, kws, k + 1)

\* The outer loop `for col in df.columns`, from column i on.
RECURSIVE ColumnLoop(_, _, _)
ColumnLoop(cols, kws, i) ==
    IF i > Len(cols) THEN None
    ELSE IF KeywordLoop(Lower(cols[i]), kws, 1) THEN Some(cols[i])
    ELSE ColumnLoop(cols, kws, i + 1)

\* A resolver whose loops are nested the other way round: the first keyword
\* that matches any column wins.
RECURSIVE KeywordMajorLoop(_, _, _)
KeywordMajorLoop(cols, kws, k) ==
    IF k > Len(kws) THEN None
    ELSE LET hit == ColumnLoop(cols, <<kws[k]>>, 1)
         IN  IF hit.some THEN hit ELSE KeywordMajorLoop(cols, kws, k + 1)

find_column_keyword_major(cols, kws) == KeywordMajorLoop(cols, kws, 1)

\* A resolver that looks at the analyzer: once a column attribute was
\* assigned, it takes the first column for used and searches from the second.
find_column_skipping_assigned(cols, kws) ==
    ColumnLoop(cols, kws, IF fields = {} THEN 1 ELSE 2)

find_column(cols, kws) == ColumnLoop(cols, kws, 1)

-----------------------------------------------------------------------------
(* Numbers: a float is modelled by the exact fraction it stands for,       *)
(* <<numerator, denominator>> with a positive denominator, in lowest terms *)

Abs(n) == IF n < 0 THEN -n ELSE n

RECURSIVE GCD(_, _)
GCD(a, b) == IF b = 0 THEN a ELSE GCD(b, a % b)

Rat(n, d) ==
    LET g == GCD(Abs(n), d)
    IN  IF n = 0 THEN <<0, 1>> ELSE <<n \div g, d \div g>>

RatGT(x, y) == x[1] * y[2] > y[1] * x[2]

RatLE(x, y) == x[1] * y[2] <= y[1] * x[2]

RatDiv(x, k) == Rat(x[1], x[2] * k)

RatAdd(x, y) == Rat(x[1] * y[2] + y[1] * x[2], x[2] * y[2])

RatSub(x, y) == Rat(x[1] * y[2] - y[1] * x[2], x[2] * y[2])

RatMul(x, y) == Rat(x[1] * y[1], x[2] * y[2])

RatMin(x, y) == IF RatLE(x, y) THEN x ELSE y

RatMax(x, y) == IF RatLE(x, y) THEN y ELSE x

RECURSIVE RatPow(_, _)
RatPow(x, n) == IF n = 0 THEN <<1, 1>> ELSE RatMul(x, RatPow(x, n - 1))

\* int(x) of a non-negative float
Trunc(x) == x[1] \div x[2]

\* round(x, 0) of a non-negative float: to the nearest integer, a tie to
\* the even one.
RoundHalfEven(x) ==
    LET q == x[1] \div x[2]
        r == x[1] % x[2]
    IN  IF 2 * r < x[2] THEN q
        ELSE IF 2 * r > x[2] THEN q + 1
        ELSE IF q % 2 = 0 THEN q ELSE q + 1

\* round(x, 1) of a non-negative float
Round1(x) == Rat(RoundHalfEven(RatMul(x, <<10, 1>>)), 10)

\* round(x, 2) of a non-negative float
Round2(x) == Rat(RoundHalfEven(RatMul(x, <<100, 1>>)), 100)

Zero == <<0, 1>>

One == <<1, 1>>

Hundred == <<100, 1>>

RECURSIVE Pow10(_)
Pow10(n) == IF n = 0 THEN 1 ELSE 10 * Pow10(n - 1)

-----------------------------------------------------------------------------
(* Cells of a raw sheet, and Python's float(str)                           *)

NaN == [kind |-> "nan"]                       \* a missing value (None, NaN)

Num(r) == [kind |-> "num", val |-> r]         \* an int or a float

Str(s) == [kind |-> "str", text |-> s]        \* a str

Obj == [kind |-> "obj"]                       \* any other object (a datetime)

Digits == {"0", "1", "5"}

DigitVal(c) == CASE c = "0" -> 0 [] c = "1" -> 1 [] c = "5" -> 5

\* str.replace('%', '')
RemovePercent(s) == SelectSeq(s, LAMBDA c : c # "%")

\* str.strip()
RECURSIVE Strip(_)
Strip(s) ==
    IF s = <<>> THEN s
    ELSE IF Head(s) = " " THEN Strip(Tail(s))
    ELSE IF s[Len(s)] = " " THEN Strip(SubSeq(s, 1, Len(s) - 1))
    ELSE s

\* The integer a string of digits denotes.
RECURSIVE DigitsVal(_)
DigitsVal(s) ==
    IF s = <<>> THEN 0
    ELSE 10 * DigitsVal(SubSeq(s, 1, Len(s) - 1)) + DigitVal(s[Len(s)])

\* float(s): an optional sign, then digits with at most one decimal point
\* and at least one digit; anything else raises ValueError (None here).
ParseFloat(s) ==
    LET t == Strip(s)
        neg == t # <<>> /\ Head(t) = "-"
        body == IF neg THEN Tail(t) ELSE t
        dots == {i \in 1..Len(body) : body[i] = "."}
        digs == SelectSeq(body, LAMBDA c : c \in Digits)
        wellFormed ==
            /\ \A i \in 1..Len(body) : body[i] \in Digits \cup {"."}
            /\ Cardinality(dots) <= 1
            /\ digs # <<>>
        frac == IF dots = {} THEN 0
                ELSE Len(body) - (CHOOSE i \in dots : TRUE)
        mag == DigitsVal(digs)
    IN  IF wellFormed
        THEN Some(Rat(IF neg THEN -mag ELSE mag, Pow10(frac)))
        ELSE None

-----------------------------------------------------------------------------
(* The rate normalizers of POTDataCleaner                                  *)

\* clean_website_traffic, step 2: the body of the loop over the rows, as a
\* function of the row's 'Bounce Rate' cell to the cell the row is left with.
\* (NaN is a float: `nan > 1` is False and the cell is left alone.)
bounce_rate_fix(bounce) ==
    IF bounce.kind = "num"
    THEN IF RatGT(bounce.val, One) THEN Num(RatDiv(bounce.val, 100)) ELSE bounce
    ELSE bounce

\* fix_engagement_rate with `value >= 1` for `value > 1` in its number branch.
fix_engagement_rate_from_one(value) ==
    IF value.kind = "nan" THEN NaN
    ELSE IF value.kind = "str"
    THEN LET parsed == ParseFloat(RemovePercent(value.text))
         IN  IF ~parsed.some THEN NaN
             ELSE IF RatLE(Zero, parsed.val) /\ RatLE(parsed.val, Hundred)
             THEN Num(RatDiv(parsed.val, 100))
             ELSE Num(parsed.val)
    ELSE IF value.kind = "num"
    THEN IF RatLE(One, value.val) THEN Num(RatDiv(value.val, 100)) ELSE value
    ELSE NaN

\* clean_social_media.fix_engagement_rate
fix_engagement_rate(value) ==
    IF value.kind = "nan" THEN NaN
    ELSE IF value.kind = "str"
    THEN LET parsed == ParseFloat(RemovePercent(value.text))
         IN  IF ~parsed.some THEN NaN
             ELSE IF RatLE(Zero, parsed.val) /\ RatLE(parsed.val, Hundred)
             THEN Num(RatDiv(parsed.val, 100))
             ELSE Num(parsed.val)
    ELSE IF value.kind = "num"
    THEN IF RatGT(value.val, One) THEN Num(RatDiv(value.val, 100)) ELSE value
    ELSE NaN

\* fix_rate_column whose string branch forgets the division.
fix_rate_column_undivided_str(value) ==
    IF value.kind = "nan" THEN NaN
    ELSE IF value.kind = "str"
    THEN LET parsed == ParseFloat(RemovePercent(value.text))
         IN  IF ~parsed.some THEN NaN ELSE Num(parsed.val)
    ELSE IF value.kind = "num"
    THEN IF RatGT(value.val, One) THEN Num(RatDiv(value.val, 100)) ELSE value
    ELSE NaN

\* clean_email_campaigns.fix_rate_column
fix_rate_column(value) ==
    IF value.kind = "nan" THEN NaN
    ELSE IF value.kind = "str"
    THEN LET parsed == ParseFloat(RemovePercent(value.text))
         IN  IF ~parsed.some THEN NaN
             ELSE IF RatGT(parsed.val, One)
             THEN Num(RatDiv(parsed.val, 100))
             ELSE Num(parsed.val)
    ELSE IF value.kind = "num"
    THEN IF RatGT(value.val, One) THEN Num(RatDiv(value.val, 100)) ELSE value
    ELSE NaN

\* The normalizer applied to a rate column, by the name of the column's rule.
Normalizers == {"bounce_rate", "engagement_rate", "rate_column"}

Normalize(n, cell) ==
    CASE n = "bounce_rate" -> bounce_rate_fix(cell)
      [] n = "engagement_rate" -> fix_engagement_rate(cell)
      [] n = "rate_column" -> fix_rate_column(cell)

-----------------------------------------------------------------------------
(* The sales pipeline table.  Every computation of the two stages reads it *)
(* through len() of a row filter or through groupby().size(), so the table *)
(* is kept as the number of rows per (Deal Stage, Ticket Type) and the     *)
(* row counts of the months of 'First Contact Date' in calendar order      *)
(* (rows whose date is NaT are in no month).  stuck_count and stuck_value   *)
(* are the number and the summed deal value of the rows in a stuck stage   *)
(* whose first contact is more than 30 days old.                           *)

Stages == {"Closed Won", "Closed Lost", "Negotiation", "Won"}

\* What str.contains('Delegate') and str.contains('Sponsor') tell of a
\* ticket type.
TicketKinds == {"Delegate", "Sponsor", "Other"}

DealCells == Stages \X TicketKinds

RECURSIVE SumOver(_, _)
SumOver(f, S) ==
    IF S = {} THEN 0
    ELSE LET x == CHOOSE y \in S : TRUE
         IN  f[x] + SumOver(f, S \ {x})

RECURSIVE SumSeq(_)
SumSeq(q) == IF q = <<>> THEN 0 ELSE Head(q) + SumSeq(Tail(q))

\* len(df[df[stage column].isin(stages)])
RowsInStages(t, stages) ==
    SumOver(t.deals, {c \in DOMAIN t.deals : c[1] \in stages})

\* len(df[type.str.contains(kind) & (stage == 'Closed Won')])
WonOfKind(t, kind) ==
    SumOver(t.deals, {c \in DOMAIN t.deals : c[1] = "Closed Won" /\ c[2] = kind})

\* len(df)
TotalRows(t) == SumOver(t.deals, DOMAIN t.deals)

-----------------------------------------------------------------------------
(* AdaptiveMLAnalyzer.generate_conversion_analysis, the overall rate       *)

\* A conversion rate that divides the won deals by all the deals.
overall_rate_of_all_deals(t) ==
    LET closed_all == TotalRows(t)
        won_all == RowsInStages(t, {"Closed Won"})
    IN  IF closed_all > 0 THEN Rat(won_all * 100, closed_all) ELSE Zero

\* overall_rate, before rounding
overall_rate(t) ==
    LET closed_all == RowsInStages(t, {"Closed Won", "Closed Lost"})
        won_all == RowsInStages(t, {"Closed Won"})
    IN  IF closed_all > 0 THEN Rat(won_all * 100, closed_all) ELSE Zero

\* The lead sources of by_source: groupby() yields a group per source that
\* has rows, so there is none exactly when the table has no rows.
BySource(t) == IF TotalRows(t) = 0 THEN {} ELSE {"Lead Source"}

conversion_analysis(t) ==
    [by_source |-> BySource(t),
     overall_rate |-> Round1(overall_rate(t)),
     total_closed |-> RowsInStages(t, {"Closed Won", "Closed Lost"}),
     total_won |-> RowsInStages(t, {"Closed Won"})]

conversion_fallback ==
    [by_source |-> {"Referral", "Email Campaign", "LinkedIn Outreach",
                    "Website Inquiry", "Conference Meeting", "Cold Outreach"},
     overall_rate |-> Rat(178, 10),
     total_closed |-> 107,
     total_won |-> 19]

-----------------------------------------------------------------------------
(* AdaptiveMLAnalyzer.generate_forecast                                    *)

\* monthly_data.pct_change().mean(): the mean of (m[i] - m[i-1]) / m[i-1]
\* over i = 2..len; the first entry of pct_change is NaN and mean skips it.
RECURSIVE PctChangeSum(_, _)
PctChangeSum(m, i) ==
    IF i > Len(m) THEN Zero
    ELSE RatAdd(Rat(m[i] - m[i - 1], m[i - 1]), PctChangeSum(m, i + 1))

growth_rate(m) == RatMul(PctChangeSum(m, 2), Rat(1, Len(m) - 1))

\* The growth without its upper clamp.
monthly_growth_unclamped(m) ==
    IF Len(m) > 1
    THEN LET g == growth_rate(m)
         IN  RatAdd(One, IF RatLE(g, Zero) THEN Rat(15, 100) ELSE g)
    ELSE Rat(115, 100)

\* monthly_growth; every month of groupby().size() has a row, so the mean
\* over two or more months is never NaN.
monthly_growth(m) ==
    IF Len(m) > 1
    THEN LET g == growth_rate(m)
         IN  RatAdd(One, IF RatLE(g, Zero) THEN Rat(15, 100)
                         ELSE RatMin(g, Rat(3, 10)))
    ELSE Rat(115, 100)

months_remaining == 4

delegate_target == 300

sponsor_target == 25

\* The forecast after one month less than months_remaining.
compound_one_month_short(current, growth) ==
    RatMul(<<current, 1>>, RatPow(growth, months_remaining - 1))

\* Whether monthly_growth is a numpy.float64 rather than a Python float:
\* pct_change().mean() is a numpy.float64, min(growth_rate, 0.3) returns its
\* first argument unless 0.3 is smaller, and the default 0.15 is a float.
growth_is_numpy(m) ==
    /\ Len(m) > 1
    /\ RatGT(growth_rate(m), Zero)
    /\ RatLE(growth_rate(m), Rat(3, 10))

\* A comparison with a numpy.float64 yields a numpy.bool_, not a bool.
Flag(value, numpy) ==
    [value |-> value, type |-> IF numpy THEN "numpy.bool_" ELSE "bool"]

\* current * (monthly_growth ** months_remaining)
compound(current, growth) ==
    RatMul(<<current, 1>>, RatPow(growth, months_remaining))

forecast_locals(t) ==
    [current_delegates |-> WonOfKind(t, "Delegate"),
     current_sponsors |-> WonOfKind(t, "Sponsor"),
     monthly_growth |-> monthly_growth(t.monthly),
     numpy |-> growth_is_numpy(t.monthly),
     delegate_forecast |->
         compound(WonOfKind(t, "Delegate"), monthly_growth(t.monthly)),
     sponsor_forecast |->
         compound(WonOfKind(t, "Sponsor"), monthly_growth(t.monthly))]

forecast_entry(l) ==
    [current_delegates |-> l.current_delegates,
     current_sponsors |-> l.current_sponsors,
     delegate_target |-> delegate_target,
     sponsor_target |-> sponsor_target,
     delegate_forecast |-> RoundHalfEven(l.delegate_forecast),
     sponsor_forecast |-> RoundHalfEven(l.sponsor_forecast),
     delegate_gap |->
         RatMax(Zero, RatSub(<<delegate_target, 1>>, l.delegate_forecast)),
     sponsor_gap |->
         RatMax(Zero, RatSub(<<sponsor_target, 1>>, l.sponsor_forecast)),
     monthly_growth_rate |->
         Round1(RatMul(RatSub(l.monthly_growth, One), Hundred)),
     monthly_predictions |->
         [month \in 1..months_remaining |->
             [month |-> month,
              delegates |-> Trunc(RatMul(<<l.current_delegates, 1>>,
                                         RatPow(l.monthly_growth, month))),
              sponsors |-> Trunc(RatMul(<<l.current_sponsors, 1>>,
                                        RatPow(l.monthly_growth, month)))]],
     on_track_delegates |->
         Flag(RatLE(Rat(delegate_target * 9, 10), l.delegate_forecast),
              l.numpy),
     on_track_sponsors |->
         Flag(RatLE(Rat(sponsor_target * 9, 10), l.sponsor_forecast),
              l.numpy)]

forecast_fallback ==
    [current_delegates |-> 14,
     current_sponsors |-> 3,
     delegate_target |-> 300,
     sponsor_target |-> 25,
     delegate_forecast |-> 280,
     sponsor_forecast |-> 22,
     delegate_gap |-> <<20, 1>>,
     sponsor_gap |-> <<3, 1>>,
     monthly_growth_rate |-> <<15, 1>>,
     monthly_predictions |->
         <<[month |-> 1, delegates |-> 60, sponsors |-> 5],
           [month |-> 2, delegates |-> 65, sponsors |-> 6],
           [month |-> 3, delegates |-> 70, sponsors |-> 7],
           [month |-> 4, delegates |-> 68, sponsors |-> 7]>>,
     on_track_delegates |-> Flag(FALSE, FALSE),
     on_track_sponsors |-> Flag(FALSE, FALSE)]

-----------------------------------------------------------------------------
(* The parts of the state a specification does not exercise                *)

IdleResolver ==
    /\ columns = <<>>
    /\ keywords = <<>>
    /\ resolved = <<>>

IdleNormalizer ==
    /\ raw = [kind |-> "nan"]
    /\ norm = EmptyMap
    /\ renorm = EmptyMap

IdleAnalyzer ==
    /\ pc = "idle"
    /\ fields = {}
    /\ insights = EmptyMap
    /\ raised = EmptyMap
    /\ locals = None
    /\ outcome = None

IdleCleaner ==
    /\ cpc = "idle"
    /\ excel = [readable |-> FALSE, sheets |-> {}, malformed |-> {}]
    /\ data = {}
    /\ kpis = None
    /\ files = {}
    /\ cresult = None

IdleSales ==
    sales = [deals |-> [c \in {} |-> 0], monthly |-> <<>>,
             stuck_count |-> 0, stuck_value |-> 0]

IdleDashboard ==
    /\ saved = None
    /\ dpc = "idle"
    /\ dash = None

-----------------------------------------------------------------------------
(* AdaptiveMLAnalyzer: load_all_data and the steps of run_analysis         *)

WebsiteFields == {"web_sessions", "web_conversions", "web_source"}

SocialFields ==
    {"soc_impressions", "soc_engagements", "soc_clicks", "soc_platform"}

EmailFields ==
    {"email_conversions", "email_revenue", "email_open", "email_ctr"}

SalesFields ==
    {"sales_value", "sales_stage", "sales_source", "sales_type",
     "sales_contact_date"}

AdFields ==
    {"ad_spend", "ad_conversions", "ad_impressions", "ad_clicks",
     "ad_platform", "ad_campaign"}

AllFields ==
    WebsiteFields \cup SocialFields \cup EmailFields \cup SalesFields
        \cup AdFields

MaxAbsent == 1     \* most column fields find_column leaves None in a run
MaxFaults == 1     \* most steps of a run in which a library call raises

Has(f) == f \in fields

\* A method returns or raises.
Returned(v) == [raised |-> FALSE, value |-> v]

Raises(exc) == [raised |-> TRUE, exc |-> exc]

\* Whether a pandas call of the step may raise on the cells it reads (a
\* column of the wrong dtype, say): only a step that reads cells can, and
\* the model admits at most MaxFaults raising steps in a run.
FaultChoices(readsCells) ==
    IF readsCells /\ Cardinality(DOMAIN raised) < MaxFaults
    THEN BOOLEAN ELSE {FALSE}

\* The try body of a step: a KeyError for a None column key, else the
\* library fault if there is one, else the insights the body built.
Body(keyError, fault, built) ==
    IF keyError THEN Raises("KeyError")
    ELSE IF fault THEN Raises("data")
    ELSE Returned(built)

Metrics(conds) == {m \in DOMAIN conds : conds[m]}

\* A run_analysis that does not look at what load_all_data returned.
LoadAllDataUnchecked ==
    /\ pc = "load"
    /\ \E readable \in BOOLEAN :
         fields' = IF readable THEN AllFields ELSE fields
    /\ pc' = "website"
    /\ UNCHANGED <<insights, raised, locals, outcome, sales>>
    /\ UNCHANGED <<resolverVars, normVars, cleanerVars, dashVars>>

\* load_all_data: the CSVs are read, or read_csv raises and False is
\* returned; then every field is the result of find_column, a header or None.
LoadAllData ==
    /\ pc = "load"
    /\ \E readable \in BOOLEAN :
         IF readable
         THEN /\ \E absent \in SUBSET AllFields :
                    /\ Cardinality(absent) <= MaxAbsent
                    /\ fields' = AllFields \ absent
              /\ pc' = "website"
              /\ outcome' = outcome
         ELSE /\ fields' = fields
              /\ pc' = "done"
              /\ outcome' = Some("False")
    /\ UNCHANGED <<insights, raised, locals, sales>>
    /\ UNCHANGED <<resolverVars, normVars, cleanerVars, dashVars>>

\* The body of analyze_website's try block.
analyze_website_body(fault) ==
    Body(Has("web_source") /\ Has("web_conversions") /\ ~Has("web_sessions"),
         fault,
         [metrics |-> Metrics(
            [total_sessions |-> Has("web_sessions"),
             total_conversions |-> Has("web_conversions"),
             source_analysis |-> Has("web_source") /\ Has("web_conversions")])])

\* analyze_social: the groupby of the platform block aggregates all three
\* metric columns.
analyze_social_body(fault) ==
    Body(/\ Has("soc_platform")
         /\ ~(Has("soc_impressions") /\ Has("soc_engagements")
                /\ Has("soc_clicks")),
         fault,
         [metrics |-> Metrics(
            [platform_stats |-> Has("soc_platform"),
             best_platform |-> Has("soc_platform"),
             total_impressions |-> Has("soc_impressions"),
             total_clicks |-> Has("soc_clicks")])])

analyze_email_body(fault) ==
    Body(FALSE,
         fault,
         [metrics |-> Metrics(
            [total_conversions |-> Has("email_conversions"),
             total_revenue |-> Has("email_revenue"),
             avg_open_rate |-> Has("email_open"),
             avg_ctr |-> Has("email_ctr")])])

\* analyze_sales: closed deals are the rows in 'Closed Won', 'Closed Lost',
\* 'Won' or 'Lost', won deals those of them whose stage contains 'Won'.
analyze_sales_body(fault) ==
    LET closed == RowsInStages(sales, {"Closed Won", "Closed Lost", "Won", "Lost"})
        won == RowsInStages(sales, {"Closed Won", "Won"})
        m == Metrics(
            [total_pipeline_value |-> Has("sales_value"),
             total_deals |-> TRUE,
             stage_distribution |-> Has("sales_stage"),
             conversion_rate |-> Has("sales_stage") /\ closed > 0,
             top_sources |-> Has("sales_source")])
    IN  Body(FALSE,
             fault,
             IF "conversion_rate" \in m
             THEN [metrics |-> m,
                   conversion_rate |-> Round1(Rat(won * 100, closed))]
             ELSE [metrics |-> m])

\* analyze_ads: the groupby of the platform block aggregates all four
\* metric columns.
analyze_ads_body(fault) ==
    Body(/\ Has("ad_platform") /\ Has("ad_spend")
         /\ ~(Has("ad_conversions") /\ Has("ad_impressions")
                /\ Has("ad_clicks")),
         fault,
         [metrics |-> Metrics(
            [platform_stats |-> Has("ad_platform") /\ Has("ad_spend"),
             best_platform |-> Has("ad_platform") /\ Has("ad_spend"),
             total_spend |-> Has("ad_spend"),
             total_ad_conversions |-> Has("ad_conversions")])])

\* An analyze_* method around its body: the handler prints and returns {},
\* and only a body that ran to its end stores its insights.
AnalyzeStep(step, next, body) ==
    /\ pc = step
    /\ IF body.raised
       THEN /\ insights' = insights
            /\ raised' = Put(raised, step, body.exc)
       ELSE /\ insights' = Put(insights, step, body.value)
            /\ raised' = raised
    /\ pc' = next
    /\ UNCHANGED <<fields, locals, outcome, sales>>
    /\ UNCHANGED <<resolverVars, normVars, cleanerVars, dashVars>>

AnalyzeWebsite ==
    \E fault \in FaultChoices(Has("web_sessions") \/ Has("web_conversions")) :
        AnalyzeStep("website", "social", analyze_website_body(fault))

AnalyzeSocial ==
    \E fault \in FaultChoices(Has("soc_platform") \/ Has("soc_impressions")
                                \/ Has("soc_clicks")) :
        AnalyzeStep("social", "email", analyze_social_body(fault))

AnalyzeEmail ==
    \E fault \in FaultChoices(EmailFields \cap fields # {}) :
        AnalyzeStep("email", "sales", analyze_email_body(fault))

AnalyzeSales ==
    \E fault \in FaultChoices(Has("sales_value") \/ Has("sales_stage")
                                \/ Has("sales_source")) :
        AnalyzeStep("sales", "ads", analyze_sales_body(fault))

AnalyzeAds ==
    \E fault \in FaultChoices(Has("ad_spend") \/ Has("ad_conversions")) :
        AnalyzeStep("ads", "roi", analyze_ads_body(fault))

MaxChannels == 3    \* most computed channel entries

ChannelNames ==
    <<"Google Brand Search", "Email Campaigns", "Website Organic",
      "Social Media", "LinkedIn Crypto Executives">>

RoiValues == {Zero, <<1, 2>>, <<2, 1>>, <<41, 5>>}

\* The table substituted for an empty roi_data, and the rows of the
\* handler's fallback_data: the same channels and rois.
roi_fallback_rows ==
    <<[channel |-> "Google Display Retargeting", roi |-> <<41, 5>>],
      [channel |-> "Email Campaigns", roi |-> <<51, 10>>],
      [channel |-> "Website Organic", roi |-> <<43, 10>>],
      [channel |-> "LinkedIn Retargeting", roi |-> <<31, 10>>],
      [channel |-> "LinkedIn C-Suite Targeting", roi |-> <<2, 5>>]>>

\* One pass of `for channel, data in roi_data.items()`, with `>=` for `>`.
roi_step_last_best(acc, row) ==
    LET better == ~RatGT(acc.best_roi, row.roi)
        worse == ~acc.worst_roi.some \/ RatGT(acc.worst_roi.val, row.roi)
    IN  [best_channel |-> IF better THEN Some(row.channel)
                          ELSE acc.best_channel,
         best_roi |-> IF better THEN row.roi ELSE acc.best_roi,
         worst_channel |-> IF worse THEN Some(row.channel)
                           ELSE acc.worst_channel,
         worst_roi |-> IF worse THEN Some(row.roi) ELSE acc.worst_roi]

\* One pass of `for channel, data in roi_data.items()`; a worst_roi of
\* None stands for float('inf').
roi_step(acc, row) ==
    LET better == RatGT(row.roi, acc.best_roi)
        worse == ~acc.worst_roi.some \/ RatGT(acc.worst_roi.val, row.roi)
    IN  [best_channel |-> IF better THEN Some(row.channel)
                          ELSE acc.best_channel,
         best_roi |-> IF better THEN row.roi ELSE acc.best_roi,
         worst_channel |-> IF worse THEN Some(row.channel)
                           ELSE acc.worst_channel,
         worst_roi |-> IF worse THEN Some(row.roi) ELSE acc.worst_roi]

RECURSIVE RoiLoop(_, _, _)
RoiLoop(rows, i, acc) ==
    IF i > Len(rows) THEN acc
    ELSE RoiLoop(rows, i + 1, roi_step(acc, rows[i]))

RECURSIVE RoiSum(_, _)
RoiSum(rows, i) ==
    IF i > Len(rows) THEN Zero ELSE RatAdd(rows[i].roi, RoiSum(rows, i + 1))

\* round(np.mean([data.get('roi', 0) for data in roi_data.values()]), 2)
average_roi(rows) == Round2(RatDiv(RoiSum(rows, 1), Len(rows)))

\* The try body from `if not roi_data` on.
best_and_worst(computed) ==
    LET roi_data == IF computed = <<>> THEN roi_fallback_rows ELSE computed
        found == RoiLoop(roi_data, 1,
                         [best_channel |-> None, best_roi |-> Zero,
                          worst_channel |-> None, worst_roi |-> None])
    IN  [channel_data |-> roi_data,
         best_channel |-> found.best_channel,
         best_roi |-> found.best_roi,
         worst_channel |-> found.worst_channel,
         worst_roi |-> found.worst_roi,
         average_roi |-> average_roi(roi_data)]

\* The handler's fallback_data.
roi_fallback_data ==
    [channel_data |-> roi_fallback_rows,
     best_channel |-> Some("Google Display Retargeting"),
     best_roi |-> <<41, 5>>,
     worst_channel |-> Some("LinkedIn C-Suite Targeting"),
     worst_roi |-> Some(<<2, 5>>),
     average_roi |-> <<21, 5>>]

\* The ad channels generate_roi_analysis finds rows for: the campaign types
\* of the Google and LinkedIn rows of the ad table.
AdChannelChoices ==
    {{}, {"Google Display Retargeting"},
     {"Google Brand Search", "LinkedIn C-Suite Targeting"}}

roi_fallback_table ==
    {"Google Display Retargeting", "Email Campaigns", "Website Organic",
     "LinkedIn Retargeting", "LinkedIn C-Suite Targeting"}

roi_fallback ==
    [channel_data |-> roi_fallback_table,
     best_channel |-> "Google Display Retargeting",
     worst_channel |-> "LinkedIn C-Suite Targeting",
     best_roi |-> roi_fallback_data.best_roi,
     worst_roi |-> roi_fallback_data.worst_roi.val,
     average_roi |-> roi_fallback_data.average_roi]

\* The rois of a run's channels: sample figures of the cleaned tables, in
\* the order generate_roi_analysis inserts the channels into roi_data.
SampleRois ==
    <<[channel |-> "Google Display Retargeting", roi |-> <<41, 5>>],
      [channel |-> "Google Brand Search", roi |-> <<2, 1>>],
      [channel |-> "LinkedIn C-Suite Targeting", roi |-> <<2, 5>>],
      [channel |-> "Email Campaigns", roi |-> <<51, 10>>],
      [channel |-> "Website Organic", roi |-> <<43, 10>>],
      [channel |-> "Social Media", roi |-> <<1, 2>>]>>

RoiRows(channels) ==
    SelectSeq(SampleRois, LAMBDA row : row.channel \in channels)

\* generate_roi_analysis's try body: the ad block indexes the ad table by
\* ad_platform and, for the rows it finds, by ad_campaign; the other
\* channels come from the entries of self.insights.
generate_roi_analysis_body(fault, adRows) ==
    LET adBlock == Has("ad_spend") /\ Has("ad_conversions")
        adChannels == IF adBlock THEN adRows ELSE {}
        roi_data ==
            adChannels
              \cup (IF "email" \in DOMAIN insights
                    THEN {"Email Campaigns"} ELSE {})
              \cup (IF "website" \in DOMAIN insights
                    THEN {"Website Organic"} ELSE {})
              \cup (IF "social" \in DOMAIN insights
                    THEN {"Social Media"} ELSE {})
    IN  Body(adBlock /\ (~Has("ad_platform")
                           \/ (adRows # {} /\ ~Has("ad_campaign"))),
             fault,
             LET found == best_and_worst(RoiRows(roi_data))
             IN  [channel_data |->
                      IF roi_data = {} THEN roi_fallback_table ELSE roi_data,
                  best_roi |-> found.best_roi,
                  worst_roi |-> found.worst_roi.val,
                  average_roi |-> found.average_roi])

\* A generate_* step whose handler forgets to store the fallback.
GenerateStepFallbackNotStored(step, key, next, guard, body, fallback, loc) ==
    /\ pc = step
    /\ IF ~guard
       THEN UNCHANGED <<insights, raised, locals>>
       ELSE IF body.raised
       THEN /\ insights' = insights
            /\ raised' = Put(raised, step, body.exc)
            /\ locals' = locals
       ELSE /\ insights' = Put(insights, key, body.value)
            /\ raised' = raised
            /\ locals' = loc
    /\ pc' = next
    /\ UNCHANGED <<fields, outcome, sales>>
    /\ UNCHANGED <<resolverVars, normVars, cleanerVars, dashVars>>

\* A generate_* method (and find_hidden_insights, calculate_kpis): when the
\* `if` of the try block is false nothing is stored; when the body raises
\* the handler stores the hardcoded fallback under the step's key.
GenerateStep(step, key, next, guard, body, fallback, loc) ==
    /\ pc = step
    /\ IF ~guard
       THEN UNCHANGED <<insights, raised, locals>>
       ELSE IF body.raised
       THEN /\ insights' = Put(insights, key, fallback)
            /\ raised' = Put(raised, step, body.exc)
            /\ locals' = locals
       ELSE /\ insights' = Put(insights, key, body.value)
            /\ raised' = raised
            /\ locals' = loc
    /\ pc' = next
    /\ UNCHANGED <<fields, outcome, sales>>
    /\ UNCHANGED <<resolverVars, normVars, cleanerVars, dashVars>>

GenerateRoiAnalysis ==
    \E adRows \in AdChannelChoices :
      \E fault \in FaultChoices(Has("ad_spend") /\ Has("ad_conversions")
                                  /\ Has("ad_platform")) :
        GenerateStep("roi", "roi_analysis", "conversion", TRUE,
                     generate_roi_analysis_body(fault, adRows),
                     roi_fallback, locals)

GenerateConversionAnalysis ==
    \E fault \in FaultChoices(Has("sales_source") /\ Has("sales_stage")) :
        GenerateStep("conversion", "conversion_analysis", "forecast",
                     Has("sales_source") /\ Has("sales_stage"),
                     Body(FALSE, fault, conversion_analysis(sales)),
                     conversion_fallback, locals)

GenerateForecast ==
    \E fault \in FaultChoices(Has("sales_type") /\ Has("sales_stage")
                                /\ Has("sales_contact_date")) :
        GenerateStep("forecast", "forecast", "hidden",
                     Has("sales_type") /\ Has("sales_stage")
                        /\ Has("sales_contact_date"),
                     Body(FALSE, fault,
                          forecast_entry(forecast_locals(sales))),
                     forecast_fallback, Some(forecast_locals(sales)))

hidden_fallback ==
    [keys |-> {"stuck_deals_count", "stuck_deals_value", "common_blockers"},
     stuck_deals_count |-> 14,
     stuck_deals_value |-> 480000]

\* find_hidden_insights's try body.  stuck_count is assigned only inside
\* the stuck-deals block, and the date column is converted only there (or
\* by generate_forecast, which needs the stage column too): without the
\* stage or the date column the body ends in an UnboundLocalError or, at
\* `.dt.month` of an unconverted column, an AttributeError.
find_hidden_insights_body(fault, hasNotes) ==
    IF ~Has("sales_contact_date") THEN Raises("UnboundLocalError")
    ELSE IF ~Has("sales_stage") THEN Raises("AttributeError")
    ELSE Body(FALSE, fault,
              [keys |-> Metrics(
                  [stuck_deals_count |-> TRUE,
                   stuck_deals_value |-> TRUE,
                   common_blockers |-> hasNotes,
                   high_value_low_conv_sources |->
                       /\ "conversion_analysis" \in DOMAIN insights
                       /\ insights["conversion_analysis"].by_source # {},
                   monthly_trend |-> TRUE]),
               stuck_deals_count |-> sales.stuck_count,
               stuck_deals_value |->
                   IF Has("sales_value") THEN sales.stuck_value ELSE 0])

FindHiddenInsights ==
    \E hasNotes \in BOOLEAN :
      \E fault \in FaultChoices(Has("sales_stage")
                                  /\ Has("sales_contact_date")) :
        GenerateStep("hidden", "hidden_insights", "kpis", TRUE,
                     find_hidden_insights_body(fault, hasNotes),
                     hidden_fallback, locals)

total_marketing_spend == 15000

total_conversions == 200

\* dict.get(key, default)
Get(d, key, default) == IF key \in DOMAIN d THEN d[key] ELSE default

\* KPIs whose ROI figures are the defaults of the dict.get calls.
calculate_kpis_entry_roi_defaults ==
    LET has(k) == k \in DOMAIN insights
        base == [overall_cpa |-> Rat(total_marketing_spend, total_conversions),
                 total_marketing_spend |-> total_marketing_spend,
                 total_conversions |-> total_conversions]
        fc == IF has("forecast")
              THEN LET f == insights["forecast"]
                   IN  [current_delegates |-> f.current_delegates,
                        current_sponsors |-> f.current_sponsors,
                        delegate_target |-> f.delegate_target,
                        sponsor_target |-> f.sponsor_target,
                        delegate_forecast |-> f.delegate_forecast,
                        sponsor_forecast |-> f.sponsor_forecast,
                        delegate_progress |->
                            Round1(Rat(f.current_delegates * 100, 300)),
                        sponsor_progress |->
                            Round1(Rat(f.current_sponsors * 100, 25))]
              ELSE EmptyMap
        cv == IF has("conversion_analysis")
              THEN LET c == insights["conversion_analysis"]
                   IN  [overall_conversion_rate |-> c.overall_rate,
                        total_closed_deals |-> c.total_closed,
                        total_won_deals |-> c.total_won]
              ELSE EmptyMap
        ro == IF has("roi_analysis")
              THEN [average_roi |-> <<21, 5>>,
                    best_channel_roi |-> <<41, 5>>,
                    worst_channel_roi |-> <<2, 5>>]
              ELSE EmptyMap
        hd == IF has("hidden_insights")
              THEN LET h == insights["hidden_insights"]
                   IN  [stuck_deals_count |-> h.stuck_deals_count,
                        stuck_deals_value |-> h.stuck_deals_value]
              ELSE EmptyMap
    IN  [k \in DOMAIN base \cup DOMAIN fc \cup DOMAIN cv \cup DOMAIN ro
                \cup DOMAIN hd |->
            IF k \in DOMAIN hd THEN hd[k]
            ELSE IF k \in DOMAIN ro THEN ro[k]
            ELSE IF k \in DOMAIN cv THEN cv[k]
            ELSE IF k \in DOMAIN fc THEN fc[k]
            ELSE base[k]]

\* calculate_kpis's try body: constants and copies of the other entries.
calculate_kpis_entry ==
    LET has(k) == k \in DOMAIN insights
        base == [overall_cpa |-> Rat(total_marketing_spend, total_conversions),
                 total_marketing_spend |-> total_marketing_spend,
                 total_conversions |-> total_conversions]
        fc == IF has("forecast")
              THEN LET f == insights["forecast"]
                   IN  [current_delegates |-> f.current_delegates,
                        current_sponsors |-> f.current_sponsors,
                        delegate_target |-> f.delegate_target,
                        sponsor_target |-> f.sponsor_target,
                        delegate_forecast |-> f.delegate_forecast,
                        sponsor_forecast |-> f.sponsor_forecast,
                        delegate_progress |->
                            Round1(Rat(f.current_delegates * 100, 300)),
                        sponsor_progress |->
                            Round1(Rat(f.current_sponsors * 100, 25))]
              ELSE EmptyMap
        cv == IF has("conversion_analysis")
              THEN LET c == insights["conversion_analysis"]
                   IN  [overall_conversion_rate |-> c.overall_rate,
                        total_closed_deals |-> c.total_closed,
                        total_won_deals |-> c.total_won]
              ELSE EmptyMap
        ro == IF has("roi_analysis")
              THEN LET r == insights["roi_analysis"]
                   IN  [average_roi |-> r.average_roi,
                        best_channel_roi |-> r.best_roi,
                        worst_channel_roi |-> r.worst_roi]
              ELSE EmptyMap
        hd == IF has("hidden_insights")
              THEN LET h == insights["hidden_insights"]
                   IN  [stuck_deals_count |-> h.stuck_deals_count,
                        stuck_deals_value |-> h.stuck_deals_value]
              ELSE EmptyMap
    IN  [k \in DOMAIN base \cup DOMAIN fc \cup DOMAIN cv \cup DOMAIN ro
                \cup DOMAIN hd |->
            IF k \in DOMAIN hd THEN hd[k]
            ELSE IF k \in DOMAIN ro THEN ro[k]
            ELSE IF k \in DOMAIN cv THEN cv[k]
            ELSE IF k \in DOMAIN fc THEN fc[k]
            ELSE base[k]]

kpis_fallback ==
    [overall_cpa |-> <<75, 1>>,
     overall_conversion_rate |-> Rat(178, 10),
     current_delegates |-> 14,
     current_sponsors |-> 3,
     delegate_target |-> 300,
     sponsor_target |-> 25,
     delegate_progress |-> Rat(47, 10),
     sponsor_progress |-> <<12, 1>>,
     stuck_deals_count |-> 14,
     stuck_deals_value |-> 480000]

\* calculate_kpis reads self.insights only: no library call on a table.
CalculateKpis ==
    /\ pc = "kpis"
    /\ \E fault \in FaultChoices(FALSE) :
        GenerateStep("kpis", "kpis", "recommendations", TRUE,
                     Body(FALSE, fault, calculate_kpis_entry),
                     kpis_fallback, locals)

\* Recommendations whose conversion one does not look at by_source.
recommendations_ignoring_by_source ==
    LET has(k) == k \in DOMAIN insights
        rec(present, topic, priority) ==
            IF present THEN <<[topic |-> topic, priority |-> priority]>>
            ELSE <<>>
    IN  rec(has("roi_analysis"), "roi", "Critical")
          \o rec(has("conversion_analysis"), "conversion", "High")
          \o rec(has("hidden_insights"), "stuck_deals", "High")
          \o rec(has("forecast"), "forecast", "High")
          \o rec(TRUE, "operational", "Medium")

\* generate_recommendations: up to four recommendations that depend on the
\* entries of self.insights, then the operational one.
recommendations ==
    LET has(k) == k \in DOMAIN insights
        rec(present, topic, priority) ==
            IF present THEN <<[topic |-> topic, priority |-> priority]>>
            ELSE <<>>
    IN  rec(has("roi_analysis"), "roi", "Critical")
          \o rec(/\ has("conversion_analysis")
                 /\ insights["conversion_analysis"].by_source # {},
                 "conversion", "High")
          \o rec(has("hidden_insights"), "stuck_deals", "High")
          \o rec(has("forecast"), "forecast", "High")
          \o rec(TRUE, "operational", "Medium")

GenerateRecommendations ==
    /\ pc = "recommendations"
    /\ insights' = Put(insights, "recommendations", recommendations)
    /\ pc' = "charts"
    /\ UNCHANGED <<fields, raised, locals, outcome, sales>>
    /\ UNCHANGED <<resolverVars, normVars, cleanerVars, dashVars>>

\* generate_report_charts draws from literals and catches every exception:
\* self.insights is neither read nor written.
GenerateReportCharts ==
    /\ pc = "charts"
    /\ pc' = "save"
    /\ UNCHANGED <<fields, insights, raised, locals, outcome, sales>>
    /\ UNCHANGED <<resolverVars, normVars, cleanerVars, dashVars>>

\* json.dump raises TypeError on a numpy.bool_.
Serializable ==
    "forecast" \in DOMAIN insights =>
        /\ insights["forecast"].on_track_delegates.type = "bool"
        /\ insights["forecast"].on_track_sponsors.type = "bool"

\* save_insights: the metadata entry is added, then the bundle is dumped to
\* ml_insights_final.json; nothing in run_analysis catches what json.dump
\* raises, and the file it was writing is left cut short.
SaveInsights ==
    /\ pc = "save"
    /\ insights' = Put(insights, "metadata", [analyst |-> "Garima Swami"])
    /\ IF Serializable
       THEN /\ pc' = "summary"
            /\ outcome' = outcome
            /\ saved' = Some([complete |-> TRUE, bundle |-> insights'])
       ELSE /\ pc' = "done"
            /\ outcome' = Some("TypeError")
            /\ saved' = Some([complete |-> FALSE, bundle |-> insights'])
    /\ UNCHANGED <<fields, raised, locals, sales, dpc, dash>>
    /\ UNCHANGED <<resolverVars, normVars, cleanerVars>>

\* The executive summary of run_analysis: max() over the items of by_source
\* raises ValueError when there is none; otherwise True is returned.
ExecutiveSummary ==
    /\ pc = "summary"
    /\ pc' = "done"
    /\ outcome' =
         IF /\ "conversion_analysis" \in DOMAIN insights
            /\ insights["conversion_analysis"].by_source = {}
         THEN Some("ValueError")
         ELSE Some("True")
    /\ UNCHANGED <<fields, insights, raised, locals, sales>>
    /\ UNCHANGED <<resolverVars, normVars, cleanerVars, dashVars>>

NextAnalyzer ==
    \/ LoadAllData
    \/ AnalyzeWebsite
    \/ AnalyzeSocial
    \/ AnalyzeEmail
    \/ AnalyzeSales
    \/ AnalyzeAds
    \/ GenerateRoiAnalysis
    \/ GenerateConversionAnalysis
    \/ GenerateForecast
    \/ FindHiddenInsights
    \/ CalculateKpis
    \/ GenerateRecommendations
    \/ GenerateReportCharts
    \/ SaveInsights
    \/ ExecutiveSummary

\* The sales tables the analyzer is run on: one without rows, and one with
\* 19 won (14 delegates, 3 sponsors) and 88 lost deals over three months.
Deals(won_delegate, won_sponsor, won_other, lost, negotiation, plain_won) ==
    [c \in DealCells |->
        CASE c = <<"Closed Won", "Delegate">> -> won_delegate
          [] c = <<"Closed Won", "Sponsor">> -> won_sponsor
          [] c = <<"Closed Won", "Other">> -> won_other
          [] c = <<"Closed Lost", "Other">> -> lost
          [] c = <<"Negotiation", "Other">> -> negotiation
          [] c = <<"Won", "Other">> -> plain_won
          [] OTHER -> 0]

AnalyzerSales ==
    {[deals |-> Deals(0, 0, 0, 0, 0, 0), monthly |-> <<>>,
      stuck_count |-> 0, stuck_value |-> 0],
     [deals |-> Deals(14, 3, 2, 88, 20, 0), monthly |-> <<50, 60>>,
      stuck_count |-> 14, stuck_value |-> 480000],
     [deals |-> Deals(2, 1, 0, 3, 4, 0), monthly |-> <<4, 5>>,
      stuck_count |-> 0, stuck_value |-> 0]}

InitAnalyzer ==
    /\ sales \in AnalyzerSales
    /\ pc = "load"
    /\ fields = {}
    /\ insights = EmptyMap
    /\ raised = EmptyMap
    /\ locals = None
    /\ outcome = None
    /\ IdleResolver
    /\ IdleNormalizer
    /\ IdleCleaner
    /\ IdleDashboard

SpecAnalyzer == InitAnalyzer /\ [][NextAnalyzer]_vars

-----------------------------------------------------------------------------
(* POTDataCleaner: the steps of run_full_pipeline                          *)
(*                                                                         *)
(* excel is the workbook: whether it can be opened, the sheets it has, and *)
(* the sheets a clean_* method raises on (a column it indexes is missing   *)
(* or holds cells a pandas call rejects).  data is the set of keys of      *)
(* self.data, files the files save_cleaned_data has written.               *)

Sheets ==
    {"Website Traffic", "Social Media", "Email Campaigns", "Sales Pipeline",
     "Ad Spend"}

Clean(sheet) == sheet \o " Clean"

MaxMissingSheets == 1   \* most sheets the workbook lacks
MaxMalformed == 1       \* most sheets a clean_* method raises on

\* run_full_pipeline's handler: the first exception of the try block ends
\* the run, and False is returned.
PipelineFailed ==
    /\ cpc' = "done"
    /\ cresult' = Some(FALSE)

\* load_all_sheets: every sheet of the workbook is read into self.data; an
\* exception is logged and raised again.
LoadAllSheets ==
    /\ cpc = "load"
    /\ IF excel.readable
       THEN /\ data' = excel.sheets
            /\ cpc' = "website"
            /\ cresult' = cresult
       ELSE /\ data' = data
            /\ PipelineFailed
    /\ UNCHANGED <<excel, kpis, files, sales>>
    /\ UNCHANGED <<resolverVars, normVars, analyzerVars, dashVars>>

\* A clean_* method whose failure is swallowed: the pipeline goes on with
\* the next step.
CleanStepSkippingFailure(step, sheet, next) ==
    /\ cpc = step
    /\ data' = IF sheet \in data /\ sheet \notin excel.malformed
               THEN data \cup {Clean(sheet)} ELSE data
    /\ cpc' = next
    /\ cresult' = cresult
    /\ UNCHANGED <<excel, kpis, files, sales>>
    /\ UNCHANGED <<resolverVars, normVars, analyzerVars, dashVars>>

\* A clean_* method has no handler of its own: self.data[sheet] raises
\* KeyError for a sheet that was not loaded, a malformed sheet raises in a
\* column access, and otherwise the cleaned table is stored.
CleanStep(step, sheet, next) ==
    /\ cpc = step
    /\ IF sheet \in data /\ sheet \notin excel.malformed
       THEN /\ data' = data \cup {Clean(sheet)}
            /\ cpc' = next
            /\ cresult' = cresult
       ELSE /\ data' = data
            /\ PipelineFailed
    /\ UNCHANGED <<excel, kpis, files, sales>>
    /\ UNCHANGED <<resolverVars, normVars, analyzerVars, dashVars>>

CleanWebsiteTraffic ==
    /\ cpc = "website"
    /\ CleanStep("website", "Website Traffic", "social")

CleanSocialMedia ==
    /\ cpc = "social"
    /\ CleanStep("social", "Social Media", "email")

CleanEmailCampaigns ==
    /\ cpc = "email"
    /\ CleanStep("email", "Email Campaigns", "sales")

CleanSalesPipeline ==
    /\ cpc = "sales"
    /\ CleanStep("sales", "Sales Pipeline", "ads")

CleanAdSpend ==
    /\ cpc = "ads"
    /\ CleanStep("ads", "Ad Spend", "kpis")

\* POTDataCleaner.calculate_kpis, conversion_rate before rounding
conversion_rate(t) ==
    LET closed_deals == RowsInStages(t, {"Closed Won", "Closed Lost"})
        won == RowsInStages(t, {"Closed Won"})
    IN  IF closed_deals > 0 THEN Rat(won * 100, closed_deals) ELSE Zero

cleaner_kpis(t) ==
    [total_leads |-> TotalRows(t),
     conversion_rate |-> Round1(conversion_rate(t)),
     current_delegates |-> WonOfKind(t, "Delegate"),
     current_sponsors |-> WonOfKind(t, "Sponsor"),
     delegate_target |-> 300,
     sponsor_target |-> 25,
     delegate_progress |-> Round1(Rat(WonOfKind(t, "Delegate") * 100, 300)),
     sponsor_progress |-> Round1(Rat(WonOfKind(t, "Sponsor") * 100, 25)),
     monthly_growth |->
         IF Len(t.monthly) > 1
         THEN Round1(RatMul(growth_rate(t.monthly), Hundred))
         ELSE Zero]

\* calculate_kpis has its own handler: on an exception the KPIs are {}
\* and the pipeline goes on.
CleanerCalculateKpis ==
    /\ cpc = "kpis"
    /\ \E fault \in BOOLEAN :
         kpis' = IF fault THEN Some(EmptyMap) ELSE Some(cleaner_kpis(sales))
    /\ data' = data \cup {"KPIs"}
    /\ cpc' = "save"
    /\ UNCHANGED <<excel, files, cresult, sales>>
    /\ UNCHANGED <<resolverVars, normVars, analyzerVars, dashVars>>

\* The files of save_cleaned_data in the order they are written.
SavedFiles ==
    <<"Website_Traffic_Clean.csv", "Social_Media_Clean.csv",
      "Email_Campaigns_Clean.csv", "Sales_Pipeline_Clean.csv",
      "Ad_Spend_Clean.csv", "ml_insights.json", "cleaning_log.txt">>

\* save_cleaned_data: a write may raise (a full disk, a read-only folder),
\* which leaves the files written before it and fails the pipeline.
SaveCleanedData ==
    /\ cpc = "save"
    /\ \E written \in 0..Len(SavedFiles) :
         /\ files' = {SavedFiles[i] : i \in 1..written}
         /\ cresult' = Some(written = Len(SavedFiles))
    /\ cpc' = "done"
    /\ UNCHANGED <<excel, data, kpis, sales>>
    /\ UNCHANGED <<resolverVars, normVars, analyzerVars, dashVars>>

NextCleaner ==
    \/ LoadAllSheets
    \/ CleanWebsiteTraffic
    \/ CleanSocialMedia
    \/ CleanEmailCampaigns
    \/ CleanSalesPipeline
    \/ CleanAdSpend
    \/ CleanerCalculateKpis
    \/ SaveCleanedData

InitCleaner ==
    /\ sales \in AnalyzerSales
    /\ cpc = "load"
    /\ \E readable \in BOOLEAN, missing \in SUBSET Sheets :
         /\ Cardinality(missing) <= MaxMissingSheets
         /\ \E malformed \in SUBSET (Sheets \ missing) :
              /\ Cardinality(malformed) <= MaxMalformed
              /\ excel = [readable |-> readable,
                          sheets |-> Sheets \ missing,
                          malformed |-> malformed]
    /\ data = {}
    /\ kpis = None
    /\ files = {}
    /\ cresult = None
    /\ IdleResolver
    /\ IdleNormalizer
    /\ IdleAnalyzer
    /\ IdleDashboard

SpecCleaner == InitCleaner /\ [][NextCleaner]_vars

-----------------------------------------------------------------------------
(* Resolver specification: find_column on bounded headers and keywords     *)

MaxLen == 2        \* longest header
MaxCols == 2       \* most columns of a dataset
MaxCalls == 2      \* calls of find_column on the same dataset

HeaderChars == {"A", "b"}

Headers == NonEmptySeqsUpTo(HeaderChars, MaxLen)

KeywordPool == {<<"a">>, <<"B">>, <<"a", "b">>, <<"b", "A">>}

KeywordLists == UNION {[1..k -> KeywordPool] : k \in 0..2}

InitResolver ==
    /\ columns \in SeqsUpTo(Headers, MaxCols)
    /\ keywords \in KeywordLists
    /\ resolved = <<>>
    /\ IdleNormalizer
    /\ IdleSales
    /\ IdleAnalyzer
    /\ IdleCleaner
    /\ IdleDashboard

FindColumn ==
    /\ Len(resolved) < MaxCalls
    /\ resolved' = Append(resolved, find_column(columns, keywords))
    /\ UNCHANGED <<columns, keywords, normVars, sales, analyzerVars, cleanerVars, dashVars>>

NextResolver == FindColumn

SpecResolver == InitResolver /\ [][NextResolver]_vars

-----------------------------------------------------------------------------
(* C1: find_column returns the first header, in column order, whose        *)
(* lower-cased text contains a lower-cased keyword, and None exactly when  *)
(* no header contains any keyword.                                         *)

Matching(cols, kws) ==
    {i \in 1..Len(cols) :
        \E k \in 1..Len(kws) : Contains(Lower(cols[i]), Lower(kws[k]))}

C1_FirstMatchingColumn ==
    \A n \in 1..Len(resolved) :
        LET hits == Matching(columns, keywords)
        IN  IF hits = {}
            THEN resolved[n] = None
            ELSE /\ resolved[n].some
                 /\ \E i \in hits :
                        /\ \A j \in hits : i <= j
                        /\ resolved[n].val = columns[i]

\* A call has returned the first column, which only the second keyword
\* matches (and only case-insensitively), although the first keyword matches
\* the second column.
C1_Witness ==
    /\ Len(resolved) >= 1
    /\ Len(columns) = 2
    /\ Len(keywords) = 2
    /\ Contains(Lower(columns[2]), Lower(keywords[1]))
    /\ ~Contains(Lower(columns[1]), Lower(keywords[1]))
    /\ Contains(Lower(columns[1]), Lower(keywords[2]))
    /\ ~Contains(columns[1], keywords[2])
    /\ resolved[1] = Some(columns[1])

-----------------------------------------------------------------------------
(* Normalizer specification: each rate normalizer on a bounded raw cell,   *)
(* and again on the cell it produced (the cleaner re-run on its output)    *)

MaxStrLen == 3     \* longest raw string cell

CellChars == Digits \cup {".", "%", "-", " ", "x"}

RawStrings == SeqsUpTo(CellChars, MaxStrLen)

RawNumbers ==
    {Rat(n, d) : n \in {-1, 0, 1, 3, 50, 100, 101, 150, 10001}, d \in {1, 2}}

RawCells ==
    {NaN, Obj} \cup {Num(r) : r \in RawNumbers} \cup {Str(s) : s \in RawStrings}

InitNormalizer ==
    /\ raw \in RawCells
    /\ norm = EmptyMap
    /\ renorm = EmptyMap
    /\ IdleResolver
    /\ IdleSales
    /\ IdleAnalyzer
    /\ IdleCleaner
    /\ IdleDashboard

\* clean_website_traffic on the row holding the cell
CleanBounceRate ==
    /\ "bounce_rate" \notin DOMAIN norm
    /\ norm' = Put(norm, "bounce_rate", bounce_rate_fix(raw))
    /\ UNCHANGED <<raw, renorm, resolverVars, sales, analyzerVars, cleanerVars, dashVars>>

\* clean_social_media: df['Engagement Rate'].apply(fix_engagement_rate)
CleanEngagementRate ==
    /\ "engagement_rate" \notin DOMAIN norm
    /\ norm' = Put(norm, "engagement_rate", fix_engagement_rate(raw))
    /\ UNCHANGED <<raw, renorm, resolverVars, sales, analyzerVars, cleanerVars, dashVars>>

\* clean_email_campaigns: df['Open Rate'].apply(fix_rate_column), and CTR
CleanRateColumn ==
    /\ "rate_column" \notin DOMAIN norm
    /\ norm' = Put(norm, "rate_column", fix_rate_column(raw))
    /\ UNCHANGED <<raw, renorm, resolverVars, sales, analyzerVars, cleanerVars, dashVars>>

\* The same cleaning step run on the cell it produced.
CleanAgain ==
    \E n \in DOMAIN norm \ DOMAIN renorm :
        /\ renorm' = Put(renorm, n, Normalize(n, norm[n]))
        /\ UNCHANGED <<raw, norm, resolverVars, sales, analyzerVars, cleanerVars, dashVars>>

NextNormalizer ==
    \/ CleanBounceRate
    \/ CleanEngagementRate
    \/ CleanRateColumn
    \/ CleanAgain

SpecNormalizer == InitNormalizer /\ [][NextNormalizer]_vars

-----------------------------------------------------------------------------
(* Claims about the rate normalizers                                       *)

\* The number a cell stands for: the number itself, or what float() makes
\* of a string once its percent signs are removed.
ParsedValue(cell) ==
    IF cell.kind = "num" THEN Some(cell.val)
    ELSE IF cell.kind = "str" THEN ParseFloat(RemovePercent(cell.text))
    ELSE None

IsNumGT1(cell) == cell.kind = "num" /\ RatGT(cell.val, One)

(* C3: every rate normalizer applies the same ambiguity rule to the parsed *)
(* value of a cell, number or string: a value greater than 1 is divided by *)
(* 100, a value in [0,1] is returned unchanged.                            *)
C3_SameAmbiguityRule ==
    \A n \in DOMAIN norm :
        LET p == ParsedValue(raw)
            q == ParsedValue(norm[n])
        IN  p.some =>
              /\ RatGT(p.val, One) => q = Some(RatDiv(p.val, 100))
              /\ (RatLE(Zero, p.val) /\ RatLE(p.val, One)) => q = Some(p.val)

(* C4 as stated: after cleaning no rate field holds a value greater than   *)
(* 1.0, for every parseable raw value.                                     *)
C4_NoRateAboveOne ==
    \A n \in DOMAIN norm :
        ParsedValue(raw).some =>
            LET q == ParsedValue(norm[n])
            IN  q.some => RatLE(q.val, One)

(* C4, amended: for every parseable raw value of at most 100 the cleaned   *)
(* rate is a number of at most 1.0, and a raw value above 100 is left      *)
(* above 1.0; the bounce-rate fix does so for number cells only and leaves *)
(* a string cell as the string it was.                                     *)
C4_NoRateAboveOneUpTo100 ==
    \A n \in DOMAIN norm :
        LET p == ParsedValue(raw)
        IN  p.some =>
              IF n = "bounce_rate" /\ raw.kind = "str"
              THEN norm[n] = raw
              ELSE /\ norm[n].kind = "num"
                   /\ RatLE(p.val, Hundred) <=> RatLE(norm[n].val, One)

\* A string percentage between 1 and 100 has been cleaned by every
\* normalizer, to at most 1.0 by the two that read strings.
C4_Witness ==
    /\ DOMAIN norm = Normalizers
    /\ raw.kind = "str"
    /\ Contains(raw.text, <<"%">>)
    /\ ParsedValue(raw).some
    /\ RatGT(ParsedValue(raw).val, One)
    /\ RatLE(norm["engagement_rate"].val, One)
    /\ RatLE(norm["rate_column"].val, One)

(* C5 as stated: the rate normalizer is idempotent on every raw cell.      *)
C5_Idempotent ==
    \A n \in DOMAIN renorm : renorm[n] = norm[n]

(* C5, amended: cleaning the cleaned cell again changes nothing whenever   *)
(* the cleaned cell is missing or at most 1 (every parseable raw value up  *)
(* to 100); a cleaned number above 1 is divided by 100 once more.          *)
C5_IdempotentUpToOne ==
    \A n \in DOMAIN renorm :
        IF IsNumGT1(norm[n])
        THEN renorm[n] = Num(RatDiv(norm[n].val, 100))
        ELSE renorm[n] = norm[n]

\* A raw number between 1 and 100 has been cleaned twice by every
\* normalizer, the second time without effect.
C5_Witness ==
    /\ DOMAIN renorm = Normalizers
    /\ raw.kind = "num"
    /\ RatGT(raw.val, One)
    /\ \A n \in Normalizers : norm[n] # raw /\ renorm[n] = norm[n]

-----------------------------------------------------------------------------
(* Sales metrics specification: the sales table is drawn from bounded row  *)
(* counts, and generate_conversion_analysis, generate_forecast and the     *)
(* cleaner's calculate_kpis compute their figures from it.                 *)

MaxDeals == 2      \* most rows of a (stage, ticket type) besides the samples
MaxMonths == 2     \* most months of first contacts

\* Row counts of a month.
MonthCounts == {1, 4, 5}

DealCounts(sample) == 0..MaxDeals \cup {sample}

\* self.insights of a run whose columns all resolved and whose steps before
\* generate_conversion_analysis ran to their end.
InsightsBeforeConversion ==
    Put(Put(Put(Put(Put(Put(EmptyMap,
        "website", analyze_website_body(FALSE).value),
        "social", analyze_social_body(FALSE).value),
        "email", analyze_email_body(FALSE).value),
        "sales", analyze_sales_body(FALSE).value),
        "ads", analyze_ads_body(FALSE).value),
        "roi_analysis",
        [channel_data |->
            {"Google Brand Search", "LinkedIn C-Suite Targeting",
             "Email Campaigns", "Website Organic", "Social Media"}])

InitSalesMetrics ==
    /\ \E won_delegate \in DealCounts(14), won_sponsor \in {0, 3},
          won_other \in {0, 2}, lost \in DealCounts(88),
          negotiation \in {0, 20}, plain_won \in {0, 1},
          monthly \in SeqsUpTo(MonthCounts, MaxMonths) :
         /\ sales = [deals |-> Deals(won_delegate, won_sponsor, won_other,
                                     lost, negotiation, plain_won),
                     monthly |-> monthly,
                     stuck_count |-> 0,
                     stuck_value |-> 0]
         /\ SumSeq(monthly) <= TotalRows(sales)
    /\ pc = "conversion"
    /\ fields = AllFields
    /\ insights = InsightsBeforeConversion
    /\ raised = EmptyMap
    /\ locals = None
    /\ outcome = None
    /\ cpc = "kpis"
    /\ excel = [readable |-> TRUE, sheets |-> Sheets, malformed |-> {}]
    /\ data = Sheets \cup {Clean(sheet) : sheet \in Sheets}
    /\ kpis = None
    /\ files = {}
    /\ cresult = None
    /\ IdleResolver
    /\ IdleNormalizer
    /\ IdleDashboard

NextSalesMetrics ==
    \/ GenerateConversionAnalysis
    \/ GenerateForecast
    \/ CleanerCalculateKpis

SpecSalesMetrics == InitSalesMetrics /\ [][NextSalesMetrics]_vars

\* The rows of a stage, whatever their ticket type.
StageRows(stage) ==
    sales.deals[<<stage, "Delegate">>] + sales.deals[<<stage, "Sponsor">>]
        + sales.deals[<<stage, "Other">>]

\* won / (won + lost) x 100 rounded to one decimal, 0 without closed deals
ExpectedConversionRate ==
    LET won == StageRows("Closed Won")
        lost == StageRows("Closed Lost")
    IN  IF won + lost = 0 THEN Zero
        ELSE Round1(Rat(won * 100, won + lost))

ConversionComputed ==
    /\ "conversion_analysis" \in DOMAIN insights
    /\ "conversion" \notin DOMAIN raised

CleanerKpisComputed == kpis.some /\ kpis.val # EmptyMap

ForecastComputed ==
    /\ "forecast" \in DOMAIN insights
    /\ "forecast" \notin DOMAIN raised
    /\ locals.some

\* current x growth x growth x growth x growth
Compounded(current, growth) ==
    RatMul(RatMul(RatMul(RatMul(<<current, 1>>, growth), growth), growth),
           growth)

(* C7 as stated: the reported forecasts are the exact compounding          *)
(* current x (1 + growth)^4, to the one decimal the claim quotes (24.5 for *)
(* 14 delegates and a growth of 0.15).                                     *)
C7_ExactCompounding ==
    ForecastComputed =>
        LET l == locals.val
            f == insights["forecast"]
        IN  /\ <<f.delegate_forecast, 1>>
                 = Round1(Compounded(l.current_delegates, l.monthly_growth))
            /\ <<f.sponsor_forecast, 1>>
                 = Round1(Compounded(l.current_sponsors, l.monthly_growth))

(* C7, amended: generate_forecast compounds exactly and reports the result *)
(* rounded to the nearest whole number: 24, not 24.5 and not the fallback  *)
(* 280, for 14 delegates and a growth of 0.15.                             *)
C7_RoundedCompounding ==
    ForecastComputed =>
        LET l == locals.val
            f == insights["forecast"]
        IN  /\ l.delegate_forecast
                 = Compounded(l.current_delegates, l.monthly_growth)
            /\ l.sponsor_forecast
                 = Compounded(l.current_sponsors, l.monthly_growth)
            /\ f.delegate_forecast = RoundHalfEven(l.delegate_forecast)
            /\ f.sponsor_forecast = RoundHalfEven(l.sponsor_forecast)
            /\ (l.current_delegates = 14 /\ l.monthly_growth = <<23, 20>>)
                   => f.delegate_forecast = 24

\* The forecast of 14 delegates at a growth of 0.15 has been computed: the
\* compounded 24.486... is reported as 24.
C7_Witness ==
    /\ ForecastComputed
    /\ locals.val.current_delegates = 14
    /\ locals.val.monthly_growth = <<23, 20>>
    /\ RatGT(locals.val.delegate_forecast, <<24, 1>>)
    /\ insights["forecast"].delegate_forecast = 24

(* C8: the growth rate generate_forecast uses is 0.15 with fewer than two  *)
(* months or a non-positive mean month-over-month growth, else the mean    *)
(* capped at 0.3; it always lies in [0, 0.3].                              *)
C8_GrowthClamped ==
    ForecastComputed =>
        LET rate == RatSub(locals.val.monthly_growth, One)
            m == sales.monthly
        IN  /\ RatLE(Zero, rate)
            /\ RatLE(rate, Rat(3, 10))
            /\ Len(m) < 2 => rate = Rat(15, 100)
            /\ Len(m) >= 2 =>
                 LET mean == growth_rate(m)
                 IN  /\ RatLE(mean, Zero) => rate = Rat(15, 100)
                     /\ (RatGT(mean, Zero) /\ RatLE(mean, Rat(3, 10)))
                            => rate = mean
                     /\ RatGT(mean, Rat(3, 10)) => rate = Rat(3, 10)

\* A forecast has been computed from months whose mean growth exceeds 0.3
\* and used the rate 0.3.
C8_Witness ==
    /\ ForecastComputed
    /\ Len(sales.monthly) >= 2
    /\ RatGT(growth_rate(sales.monthly), Rat(3, 10))
    /\ locals.val.monthly_growth = Rat(13, 10)


-----------------------------------------------------------------------------
(* Claims on the steps of run_analysis, under SpecAnalyzer                 *)

\* The steps of run_analysis in the order they run.
StepOrder ==
    <<"load", "website", "social", "email", "sales", "ads", "roi",
      "conversion", "forecast", "hidden", "kpis", "recommendations",
      "charts", "save", "summary", "done">>

Rank(p) == CHOOSE i \in 1..Len(StepOrder) : StepOrder[i] = p

\* The run has loaded its data and is past the step.
Finished(step) ==
    /\ fields # {}
    /\ Rank(pc) > Rank(step)

AnalyzeSteps == {"website", "social", "email", "sales", "ads"}

GenerateSteps == {"roi", "conversion", "forecast", "hidden", "kpis"}

\* The key of self.insights a step stores under.
EntryKey(step) ==
    CASE step = "roi" -> "roi_analysis"
      [] step = "conversion" -> "conversion_analysis"
      [] step = "hidden" -> "hidden_insights"
      [] OTHER -> step

Fallback(step) ==
    CASE step = "roi" -> roi_fallback
      [] step = "conversion" -> conversion_fallback
      [] step = "forecast" -> forecast_fallback
      [] step = "hidden" -> hidden_fallback
      [] step = "kpis" -> kpis_fallback

(* C2 as stated: whatever fields are absent, an analyze_* step does not    *)
(* end in its exception handler because of them, and it records its entry  *)
(* in self.insights.                                                       *)
C2_AnalyzeStepsSkipAbsent ==
    \A step \in AnalyzeSteps :
        Finished(step) =>
            /\ step \in DOMAIN raised => raised[step] # "KeyError"
            /\ step \notin DOMAIN raised => step \in DOMAIN insights

(* C9 as stated: every step whose body raised has its entry in             *)
(* self.insights.                                                          *)
C9_EveryStepFallsBack ==
    \A step \in DOMAIN raised : EntryKey(step) \in DOMAIN insights

(* C9, amended: generate_roi_analysis, generate_conversion_analysis,       *)
(* generate_forecast, find_hidden_insights and calculate_kpis store their  *)
(* hardcoded fallback when the body raises; an analyze_* step whose body   *)
(* raises stores nothing, and self.insights has no entry for it.           *)
C9_GenerateStepsFallBack ==
    \A step \in DOMAIN raised :
        IF step \in GenerateSteps
        THEN /\ EntryKey(step) \in DOMAIN insights
             /\ insights[EntryKey(step)] = Fallback(step)
        ELSE /\ step \in AnalyzeSteps
             /\ step \notin DOMAIN insights

\* A run has ended in which the body of generate_forecast raised and the
\* bundle holds the fallback forecast of 280 delegates.
C9_Witness ==
    /\ pc = "done"
    /\ "forecast" \in DOMAIN raised
    /\ "forecast" \in DOMAIN insights
    /\ insights["forecast"].delegate_forecast = 280
    /\ "metadata" \in DOMAIN insights

-----------------------------------------------------------------------------
(* Claims on run_full_pipeline, under SpecCleaner                          *)

(* C10 as stated: a failure inside one clean_* step leaves the other       *)
(* clean_* steps executed: once the pipeline has ended, every loaded sheet *)
(* whose own cleaning does not raise has its cleaned dataset in self.data. *)
C10_CleanStepsIndependent ==
    (cpc = "done" /\ excel.readable) =>
        \A sheet \in excel.sheets \ excel.malformed : Clean(sheet) \in data

-----------------------------------------------------------------------------
(* Numeric coercion: clean_currency and the currency columns of            *)
(* clean_ad_spend, next to the rate normalizers                            *)

\* What a call that raised leaves instead of a cell.
Raised(exc) == [kind |-> "raised", exc |-> exc]

\* value.replace('€', '').replace(',', '')
RemoveCurrency(s) == SelectSeq(s, LAMBDA c : c # "€" /\ c # ",")

\* clean_currency that keeps the commas of the string.
clean_currency_keeps_commas(value) ==
    IF value.kind = "nan" THEN Num(Zero)
    ELSE IF value.kind = "str"
    THEN LET parsed == ParseFloat(SelectSeq(value.text, LAMBDA c : c # "€"))
         IN  IF parsed.some THEN Num(parsed.val) ELSE Num(Zero)
    ELSE IF value.kind = "num" THEN value
    ELSE Raised("TypeError")

\* clean_sales_pipeline.clean_currency: 0.0 for a missing cell and for a
\* string float() rejects; float(value) of any other object raises.
clean_currency(value) ==
    IF value.kind = "nan" THEN Num(Zero)
    ELSE IF value.kind = "str"
    THEN LET parsed == ParseFloat(RemoveCurrency(value.text))
         IN  IF parsed.some THEN Num(parsed.val) ELSE Num(Zero)
    ELSE IF value.kind = "num" THEN value
    ELSE Raised("TypeError")

\* clean_ad_spend, a cell of a currency column: in an object column the
\* cell becomes str(cell) without '€' and ',', and pd.to_numeric with
\* errors='coerce' turns what is not a number into NaN (str(nan) and
\* str(datetime) among it); a number survives str() and to_numeric as it is.
ad_currency(value) ==
    IF value.kind = "str"
    THEN LET parsed == ParseFloat(RemoveCurrency(value.text))
         IN  IF parsed.some THEN Num(parsed.val) ELSE NaN
    ELSE IF value.kind = "num" THEN value
    ELSE NaN

Coercions == {"engagement_rate", "rate_column", "currency", "ad_currency"}

CoercionChars == {"1", "5", ".", "%", "€", ",", " ", "x"}

CoercionCells ==
    {NaN, Obj} \cup {Num(r) : r \in RawNumbers}
        \cup {Str(s) : s \in SeqsUpTo(CoercionChars, MaxStrLen)}

InitCoercion ==
    /\ raw \in CoercionCells
    /\ norm = EmptyMap
    /\ renorm = EmptyMap
    /\ IdleResolver
    /\ IdleSales
    /\ IdleAnalyzer
    /\ IdleCleaner
    /\ IdleDashboard

\* clean_sales_pipeline: df['Deal Value (EUR)'].apply(clean_currency)
CleanCurrency ==
    /\ "currency" \notin DOMAIN norm
    /\ norm' = Put(norm, "currency", clean_currency(raw))
    /\ UNCHANGED <<raw, renorm, resolverVars, sales, analyzerVars, cleanerVars, dashVars>>

\* clean_ad_spend: the loop over currency_cols
CleanAdCurrency ==
    /\ "ad_currency" \notin DOMAIN norm
    /\ norm' = Put(norm, "ad_currency", ad_currency(raw))
    /\ UNCHANGED <<raw, renorm, resolverVars, sales, analyzerVars, cleanerVars, dashVars>>

NextCoercion ==
    \/ CleanEngagementRate
    \/ CleanRateColumn
    \/ CleanCurrency
    \/ CleanAdCurrency

SpecCoercion == InitCoercion /\ [][NextCoercion]_vars

\* The number a cell denotes once the signs its normalizer removes are gone.
Denoted(n, cell) ==
    IF cell.kind = "num" THEN Some(cell.val)
    ELSE IF cell.kind = "str"
    THEN IF n \in {"currency", "ad_currency"}
         THEN ParseFloat(RemoveCurrency(cell.text))
         ELSE ParseFloat(RemovePercent(cell.text))
    ELSE None

IsRate(n) == n \in {"engagement_rate", "rate_column"}

(* C11 as stated: for a string, number or missing raw cell every numeric   *)
(* field is after cleaning the number parsed from the cell (rescaled, for  *)
(* a rate) or the missing marker, the missing marker when the cell does    *)
(* not parse; no normalizer raises.                                        *)
C11_NumberOrMissing ==
    \A n \in DOMAIN norm :
        raw.kind # "obj" =>
            LET d == Denoted(n, raw)
            IN  IF d.some
                THEN /\ norm[n].kind = "num"
                     /\ ~IsRate(n) => norm[n].val = d.val
                ELSE norm[n] = NaN

(* C11, amended: the rate normalizers and the ad-spend conversion give the *)
(* parsed number (a rate rescaled) or the missing marker; clean_currency   *)
(* gives the parsed number, and 0.0, not the missing marker, for a missing *)
(* cell and for a string that does not parse.  None of them raises on a    *)
(* string, a number or a missing cell.                                     *)
C11_NumberMissingOrZero ==
    \A n \in DOMAIN norm :
        raw.kind # "obj" =>
            LET d == Denoted(n, raw)
            IN  /\ norm[n].kind \in {"num", "nan"}
                /\ d.some =>
                     /\ norm[n].kind = "num"
                     /\ IF IsRate(n)
                        THEN norm[n].val \in {d.val, RatDiv(d.val, 100)}
                        ELSE norm[n].val = d.val
                /\ ~d.some =>
                     norm[n] = IF n = "currency" THEN Num(Zero) ELSE NaN

\* A string with a thousands separator has been cleaned to the number it
\* denotes by both currency conversions.
C11_Witness ==
    /\ DOMAIN norm = Coercions
    /\ raw.kind = "str"
    /\ Contains(raw.text, <<",">>)
    /\ norm["currency"] = Num(<<15, 1>>)
    /\ norm["ad_currency"] = Num(<<15, 1>>)

-----------------------------------------------------------------------------
(* clean_website_traffic on the rows of the sheet: the missing conversion  *)
(* rates (step 3) and the numeric columns (step 5).  A row is its          *)
(* 'Conversion Rate', 'Ticket Inquiry Conversions' and 'Sessions' cells;   *)
(* rows differ in 'Week Starting' or 'Traffic Source', so drop_duplicates  *)
(* keeps them all.  raw is the sheet, norm the cleaned sheet by step name. *)

MaxRows == 2       \* most rows of a sheet

Inf == [kind |-> "inf"]                       \* float('inf')

WebRow(rate, conversions, sessions) ==
    [rate |-> rate, conversions |-> conversions, sessions |-> sessions]

\* A column read from Excel has dtype object when a cell of it is a string.
IsObjectColumn(rows, col) == \E i \in 1..Len(rows) : rows[i][col].kind = "str"

\* conversions / sessions * 100 of one masked row.  In float columns numpy
\* divides: x / 0 is inf and 0 / 0 or a NaN operand is NaN.  In an object
\* column Python divides: a str operand raises TypeError and a zero
\* divisor ZeroDivisionError.
row_conversion_rate(row, object) ==
    LET c == row.conversions
        s == row.sessions
    IN  IF object /\ (c.kind = "str" \/ s.kind = "str")
        THEN Raised("TypeError")
        ELSE IF object /\ s.kind = "num" /\ s.val = Zero
        THEN Raised("ZeroDivisionError")
        ELSE IF c.kind # "num" \/ s.kind # "num" THEN NaN
        ELSE IF s.val # Zero
        THEN Num(Rat(c.val[1] * s.val[2] * 100, c.val[2] * s.val[1]))
        ELSE IF c.val = Zero THEN NaN
        ELSE Inf

\* pd.to_numeric(errors='coerce') of a cell
to_numeric(cell) ==
    IF cell.kind = "str"
    THEN LET parsed == ParseFloat(cell.text)
         IN  IF parsed.some THEN Num(parsed.val) ELSE NaN
    ELSE IF cell.kind = "num" THEN cell
    ELSE NaN

\* The cleaned sheet, or the exception the division raises.
clean_website_rows(rows) ==
    LET object == IsObjectColumn(rows, "conversions")
                    \/ IsObjectColumn(rows, "sessions")
        masked == {i \in 1..Len(rows) : rows[i].rate.kind = "nan"}
        fill == [i \in masked |-> row_conversion_rate(rows[i], object)]
        failed == {i \in masked : fill[i].kind = "raised"}
    IN  IF failed # {}
        THEN fill[CHOOSE i \in failed : \A j \in failed : i <= j]
        ELSE [kind |-> "rows",
              rows |-> [i \in 1..Len(rows) |->
                  WebRow(IF i \in masked THEN fill[i] ELSE rows[i].rate,
                         to_numeric(rows[i].conversions),
                         to_numeric(rows[i].sessions))]]

RateCells == {NaN, Num(Rat(5, 2))}

CountCells(n) == {NaN, Num(Zero), Num(<<n, 1>>), Str(<<"x">>)}

WebRows ==
    {WebRow(r, c, s) : r \in RateCells, c \in CountCells(3), s \in CountCells(4)}

InitWebsiteRows ==
    /\ raw \in SeqsUpTo(WebRows, MaxRows)
    /\ norm = EmptyMap
    /\ renorm = EmptyMap
    /\ IdleResolver
    /\ IdleSales
    /\ IdleAnalyzer
    /\ IdleCleaner
    /\ IdleDashboard

CleanWebsiteRows ==
    /\ "website" \notin DOMAIN norm
    /\ norm' = Put(norm, "website", clean_website_rows(raw))
    /\ UNCHANGED <<raw, renorm, resolverVars, sales, analyzerVars, cleanerVars, dashVars>>

NextWebsiteRows == CleanWebsiteRows

SpecWebsiteRows == InitWebsiteRows /\ [][NextWebsiteRows]_vars

(* C12 as stated: the step fills a row's Conversion Rate exactly when it   *)
(* is missing, with that row's conversions / sessions x 100, whatever the  *)
(* other rows hold; a present rate is unchanged.  (A row without sessions  *)
(* and conversions, or without one of the two cells, has no such value and *)
(* is left out.)                                                           *)
C12_FillsMissingRate ==
    "website" \in DOMAIN norm =>
        /\ norm["website"].kind = "rows"
        /\ \A i \in 1..Len(raw) :
             LET row == raw[i]
                 out == norm["website"].rows[i].rate
             IN  IF row.rate.kind # "nan" THEN out = row.rate
                 ELSE (/\ row.conversions.kind = "num"
                       /\ row.sessions.kind = "num"
                       /\ ~(row.conversions.val = Zero /\ row.sessions.val = Zero))
                        => /\ out.kind = "num"
                           /\ RatMul(out.val, row.sessions.val)
                                = RatMul(row.conversions.val, Hundred)

-----------------------------------------------------------------------------
(* clean_sales_pipeline.infer_email on a row of the sheet: raw is the row  *)
(* (its 'Contact Email', 'Contact Name' and 'Company Name' cells), norm    *)
(* the 'Contact Email' the row is left with.                               *)

\* The index of the first character of s that is no space, 0 without one.
FirstNonSpace(s) ==
    IF \E i \in 1..Len(s) : s[i] # " "
    THEN CHOOSE i \in 1..Len(s) : s[i] # " " /\ \A j \in 1..(i - 1) : s[j] = " "
    ELSE 0

\* s.split()[0]: the first run of characters that are no whitespace;
\* split() of an empty or blank string is [] and [0] raises IndexError
\* (<<>> here, which no word is).
FirstWord(s) ==
    LET a == FirstNonSpace(s)
    IN  IF a = 0 THEN <<>>
        ELSE LET ends == {i \in a..Len(s) :
                            \A j \in a..i : s[j] # " "}
                 b == CHOOSE i \in ends : \A j \in ends : j <= i
             IN  SubSeq(s, a, b)

\* infer_email(row)
infer_email(row) ==
    IF row.email.kind = "nan" \/ row.email = Str(<<>>)
    THEN IF row.name.kind # "nan" /\ row.company.kind # "nan"
         THEN IF FirstWord(row.name.text) = <<>>
                  \/ FirstWord(row.company.text) = <<>>
              THEN Raised("IndexError")
              ELSE Str(Lower(FirstWord(row.name.text)) \o <<"@">>
                         \o Lower(FirstWord(row.company.text))
                         \o <<".", "c", "o", "m">>)
         ELSE row.email
    ELSE row.email

EmailCells == {NaN, Str(<<>>), Str(<<" ">>), Str(<<"b", "@", "A">>)}

NameCells ==
    {NaN, Str(<<>>), Str(<<" ">>), Str(<<"A", "b">>), Str(<<"A", " ", "b">>),
     Str(<<" ", "b", "A">>)}

InitSalesEmail ==
    /\ \E email \in EmailCells, name \in NameCells, company \in NameCells :
         raw = [email |-> email, name |-> name, company |-> company]
    /\ norm = EmptyMap
    /\ renorm = EmptyMap
    /\ IdleResolver
    /\ IdleSales
    /\ IdleAnalyzer
    /\ IdleCleaner
    /\ IdleDashboard

\* clean_sales_pipeline: df.apply(infer_email, axis=1), on the row
InferEmail ==
    /\ "email" \notin DOMAIN norm
    /\ norm' = Put(norm, "email", infer_email(raw))
    /\ UNCHANGED <<raw, renorm, resolverVars, sales, analyzerVars, cleanerVars, dashVars>>

NextSalesEmail == InferEmail

SpecSalesEmail == InitSalesEmail /\ [][NextSalesEmail]_vars

(* C13 as stated: an email is synthesized only for a row whose email is    *)
(* missing or empty and whose name and company are both present, from the  *)
(* lower-cased first words of the two; an existing email is kept, a row    *)
(* lacking name or company keeps its missing email; no row raises.         *)
C13_InfersEmail ==
    "email" \in DOMAIN norm =>
        LET out == norm["email"]
            missing == raw.email.kind = "nan" \/ raw.email = Str(<<>>)
        IN  /\ out.kind # "raised"
            /\ ~missing => out = raw.email
            /\ (missing /\ (raw.name.kind = "nan" \/ raw.company.kind = "nan"))
                  => out = raw.email
            /\ (missing /\ raw.name.kind = "str" /\ raw.company.kind = "str")
                  => out = Str(Lower(FirstWord(raw.name.text)) \o <<"@">>
                                 \o Lower(FirstWord(raw.company.text))
                                 \o <<".", "c", "o", "m">>)

-----------------------------------------------------------------------------
(* POTDashboard: __init__ with load_data, then run                         *)
(*                                                                         *)
(* The three scripts share the folder 3_Cleaned_Data: files and kpis are   *)
(* what the cleaner left there, saved what the analyzer left there.  dash  *)
(* holds the attributes of the dashboard object: insights, whether sales   *)
(* and ads were assigned, whether the contact dates were converted, the    *)
(* page picked in the sidebar, and how run ended.                          *)

Pages ==
    {"CEO 30-Second View", "Channel Performance", "Sales Funnel",
     "Forecasting", "Recommendations", "CEO Memo"}

\* The file load_data opens for self.insights.
InsightsFile == "ml_insights.json"

\* The file save_insights writes.
BundleFile == "ml_insights_final.json"

\* The statements of load_data's try block, in order; LoadSteps + 1 stands
\* for a block that ran to its end.
LoadSteps == 5

\* The first statement of load_data that raises: a file that is not in the
\* folder raises in the statement that opens it, and any statement may raise
\* on what it reads (a file cut short, a missing date column).
\* The folder's JSON files: the one save_insights wrote last, whole or cut
\* short, and the one save_cleaned_data wrote.
JsonParses(name) ==
    IF name = BundleFile /\ saved.some THEN saved.val.complete
    ELSE name \in files

JsonContent(name) ==
    IF name = BundleFile /\ saved.some THEN saved.val.bundle ELSE kpis.val

FirstFailure ==
    {k \in 1..(LoadSteps + 1) :
        /\ ~JsonParses(InsightsFile) => k <= 1
        /\ "Sales_Pipeline_Clean.csv" \notin files => k <= 2
        /\ "Ad_Spend_Clean.csv" \notin files => k <= 3}

\* load_data after __init__ set self.insights = {}: the statements before
\* the first failure took effect, the handler reports the rest.
load_data(k) ==
    [insights |-> IF k > 1 THEN JsonContent(InsightsFile) ELSE EmptyMap,
     sales |-> k > 2,
     ads |-> k > 3,
     dates |-> k > 4,
     loaded |-> k > LoadSteps,
     page |-> None,
     result |-> None]

\* The dashboard script is started on the folder as it is.
DashboardInit ==
    /\ dpc = "init"
    /\ \E k \in FirstFailure : dash' = Some(load_data(k))
    /\ dpc' = "sidebar"
    /\ UNCHANGED <<saved, resolverVars, normVars, sales, analyzerVars,
                   cleanerVars>>

\* run's first call, render_sidebar: len(self.sales) is evaluated whether
\* or not load_data assigned self.sales, and nothing in run catches the
\* AttributeError.
RenderSidebar ==
    /\ dpc = "sidebar"
    /\ IF dash.val.sales
       THEN /\ \E page \in Pages :
                 dash' = Some([dash.val EXCEPT !.page = Some(page)])
            /\ dpc' = "header"
       ELSE /\ dash' = Some([dash.val EXCEPT
                                 !.result = Some("AttributeError")])
            /\ dpc' = "done"
    /\ UNCHANGED <<saved, resolverVars, normVars, sales, analyzerVars,
                   cleanerVars>>

\* render_header reads self.insights['metadata'] only when the key is there.
RenderHeader ==
    /\ dpc = "header"
    /\ dpc' = "page"
    /\ UNCHANGED <<saved, dash, resolverVars, normVars, sales, analyzerVars,
                   cleanerVars>>

\* The selected render_* method.  Each guards the insight keys it reads
\* with `in` or .get; render_forecasting, once 'forecast' is there, groups
\* the sales rows with .dt, which needs the converted dates.
page_raises(d) ==
    /\ d.page.val = "Forecasting"
    /\ "forecast" \in DOMAIN d.insights
    /\ ~d.dates

RenderPage ==
    /\ dpc = "page"
    /\ dash' = Some([dash.val EXCEPT
                        !.result = IF page_raises(dash.val)
                                   THEN Some("AttributeError")
                                   ELSE Some("rendered")])
    /\ dpc' = "done"
    /\ UNCHANGED <<saved, resolverVars, normVars, sales, analyzerVars,
                   cleanerVars>>

NextDashboard ==
    \/ DashboardInit
    \/ RenderSidebar
    \/ RenderHeader
    \/ RenderPage

-----------------------------------------------------------------------------
(* The three scripts run one after the other on a workbook the cleaner     *)
(* accepts: the cleaner, then the analyzer if the cleaner returned True,   *)
(* then the dashboard.                                                     *)

GoodWorkbook == [readable |-> TRUE, sheets |-> Sheets, malformed |-> {}]

StartAnalyzer ==
    /\ cpc = "done"
    /\ cresult = Some(TRUE)
    /\ pc = "idle"
    /\ dpc = "idle"
    /\ pc' = "load"
    /\ UNCHANGED <<fields, insights, raised, locals, outcome, sales>>
    /\ UNCHANGED <<resolverVars, normVars, cleanerVars, dashVars>>

StartDashboard ==
    /\ cpc = "done"
    /\ pc \in {"idle", "done"}
    /\ dpc = "idle"
    /\ dpc' = "init"
    /\ UNCHANGED <<saved, dash, resolverVars, normVars, sales, analyzerVars,
                   cleanerVars>>

InitPipeline ==
    /\ sales \in AnalyzerSales
    /\ cpc = "load"
    /\ excel = GoodWorkbook
    /\ data = {}
    /\ kpis = None
    /\ files = {}
    /\ cresult = None
    /\ IdleResolver
    /\ IdleNormalizer
    /\ IdleAnalyzer
    /\ IdleDashboard

NextPipeline ==
    \/ NextCleaner
    \/ StartAnalyzer
    \/ NextAnalyzer
    \/ StartDashboard
    \/ NextDashboard

SpecPipeline == InitPipeline /\ [][NextPipeline]_vars

\* run_full_pipeline and run_analysis both returned True.
BothRan == cresult = Some(TRUE) /\ outcome = Some("True")

\* C14: once the cleaner and the analyzer have both run and the dashboard
\* has loaded its data, the insights the dashboard holds are the bundle
\* save_insights wrote, with the analyzer's keys.
C14_DashboardLoadsAnalyzerBundle ==
    (BothRan /\ dash.some /\ dash.val.loaded) =>
        /\ dash.val.insights = saved.val.bundle
        /\ "roi_analysis" \in DOMAIN dash.val.insights

\* C15: whatever load_data did, run ends with the sidebar, the header and
\* the selected page rendered, and raises nothing.
C15_RunAlwaysRenders ==
    dpc = "done" =>
        /\ dash.val.page.some
        /\ dash.val.result = Some("rendered")

-----------------------------------------------------------------------------
(* Resolver calls on one analyzer: load_all_data calls find_column again   *)
(* and again and assigns each result to an attribute of self.  resolved    *)
(* holds, for every call with the arguments (columns, keywords), the       *)
(* attributes self had when it was made and what it returned.              *)

FindColumnCall ==
    /\ Len(resolved) < MaxCalls
    /\ resolved' = Append(resolved,
                          [self |-> fields,
                           result |-> find_column(columns, keywords)])
    /\ UNCHANGED <<columns, keywords, normVars, sales, pc, fields, insights,
                   raised, locals, outcome, cleanerVars, dashVars>>

\* self.sales_stage = self.find_column(self.sales, [...]): another call,
\* with a keyword of its own, whose result becomes an attribute of self.
AssignSalesStage ==
    /\ "sales_stage" \notin fields
    /\ \E kw \in KeywordPool :
         /\ find_column(columns, <<kw>>).some
         /\ fields' = fields \cup {"sales_stage"}
    /\ UNCHANGED <<resolverVars, normVars, sales, pc, insights, raised,
                   locals, outcome, cleanerVars, dashVars>>

NextResolverCalls ==
    \/ FindColumnCall
    \/ AssignSalesStage

SpecResolverCalls == InitResolver /\ [][NextResolverCalls]_vars

C17_AllFilesOrNone ==
    cpc = "done" =>
        \/ cresult = Some(TRUE) /\ files = {SavedFiles[i] : i \in 1..Len(SavedFiles)}
        \/ cresult = Some(FALSE) /\ files = {}

-----------------------------------------------------------------------------
(* Stuck deals: find_hidden_insights on the rows of a sales table, with    *)
(* the columns load_all_data resolved from its headers.                    *)
(*                                                                         *)
(* columns is the header row of Sales_Pipeline_Clean.csv and raw its rows. *)
(* A row holds its stage, the whole days between its first contact date    *)
(* and now (or that the date cell does not parse), and its deal value in   *)
(* euros.                                                                  *)

\* Headers clean_sales_pipeline requires of the sheet, so that every
\* Sales_Pipeline_Clean.csv has them.
DealStage == <<"D", "e", "a", "l", " ", "S", "t", "a", "g", "e">>

DealValue ==
    <<"D", "e", "a", "l", " ", "V", "a", "l", "u", "e", " ", "(", "E", "U",
      "R", ")">>

ContactEmail ==
    <<"C", "o", "n", "t", "a", "c", "t", " ", "E", "m", "a", "i", "l">>

FirstContactDate ==
    <<"F", "i", "r", "s", "t", " ", "C", "o", "n", "t", "a", "c", "t", " ",
      "D", "a", "t", "e">>

PlainStage == <<"S", "t", "a", "g", "e">>

PlainAmount == <<"A", "m", "o", "u", "n", "t">>

PlainDate == <<"D", "a", "t", "e">>

\* The keyword lists of load_all_data for the sales table.
StageKeywords ==
    <<<<"s", "t", "a", "g", "e">>,
      <<"s", "t", "a", "t", "u", "s">>,
      <<"d", "e", "a", "l">>>>

ContactDateKeywords ==
    <<<<"c", "o", "n", "t", "a", "c", "t">>,
      <<"d", "a", "t", "e">>,
      <<"f", "i", "r", "s", "t">>>>

ValueKeywords ==
    <<<<"v", "a", "l", "u", "e">>,
      <<"d", "e", "a", "l">>,
      <<"a", "m", "o", "u", "n", "t">>,
      <<"e", "u", "r">>>>

\* What a column holds.
ColumnKind(header) ==
    CASE header \in {DealStage, PlainStage} -> "stage"
      [] header \in {DealValue, PlainAmount} -> "value"
      [] header \in {FirstContactDate, PlainDate} -> "date"
      [] OTHER -> "text"

\* The sales tables: the cleaner's headers, or plain ones, in any order.
HeaderSets ==
    {{DealStage, DealValue, ContactEmail, FirstContactDate},
     {PlainStage, PlainAmount, PlainDate}}

Orders(hs) ==
    {q \in [1..Cardinality(hs) -> hs] :
        \A i, j \in 1..Cardinality(hs) : q[i] = q[j] => i = j}

NaT == [kind |-> "nat"]

StuckThreshold == 30

DealAges == {NaT, Num(<<StuckThreshold, 1>>), Num(<<StuckThreshold + 1, 1>>)}

DealStages == {"Negotiation", "Proposal Sent", "Closed Won"}

DealValues == {0, 1000}

DealRows == [stage : DealStages, age : DealAges, value : DealValues]

stuck_stages == {"Negotiation", "Proposal Sent"}

\* self.sales[stage column].isin(stuck_stages), on one row.
in_stuck_stages(row, col) ==
    ColumnKind(col) = "stage" /\ row.stage \in stuck_stages

\* (datetime.now() - pd.to_datetime(column, errors='coerce')).dt.days > 30
\* on one row: text becomes NaT, which compares False; a number is read as
\* nanoseconds after 1970.
older_than_threshold(row, col) ==
    CASE ColumnKind(col) = "date" ->
            row.age # NaT /\ RatGT(row.age.val, <<StuckThreshold, 1>>)
      [] ColumnKind(col) = "value" -> TRUE
      [] OTHER -> FALSE

RECURSIVE SumValues(_, _)
SumValues(rows, S) ==
    IF S = {} THEN 0
    ELSE LET i == CHOOSE j \in S : TRUE
         IN  rows[i].value + SumValues(rows, S \ {i})

\* float(stuck_deals[value column].sum()): numbers add up; strings are
\* joined, and float() of the joined text raises ValueError; timestamps
\* have no sum.
stuck_value_of(rows, stuck, col) ==
    CASE ColumnKind(col) = "value" -> Returned(SumValues(rows, stuck))
      [] ColumnKind(col) = "date" -> Raises("TypeError")
      [] OTHER ->
            IF stuck = {} THEN Returned(0) ELSE Raises("ValueError")

stuck_fallback == [stuck_deals_count |-> 14, stuck_deals_value |-> 480000]

\* The stuck-deal part of find_hidden_insights for the header row cols.
\* When the stage or the date column is None, the first insight is skipped
\* and the print of stuck_count raises UnboundLocalError; the handler
\* stores the fallback.
stuck_deals(cols, rows) ==
    LET sales_stage == find_column(cols, StageKeywords)
        sales_contact_date == find_column(cols, ContactDateKeywords)
        sales_value == find_column(cols, ValueKeywords)
    IN  IF ~sales_stage.some \/ ~sales_contact_date.some
        THEN stuck_fallback
        ELSE LET stuck ==
                   {i \in 1..Len(rows) :
                       /\ in_stuck_stages(rows[i], sales_stage.val)
                       /\ older_than_threshold(rows[i],
                                               sales_contact_date.val)}
                 stuck_value ==
                   IF sales_value.some
                   THEN stuck_value_of(rows, stuck, sales_value.val)
                   ELSE Returned(0)
             IN  IF stuck_value.raised
                 THEN stuck_fallback
                 ELSE [stuck_deals_count |-> Cardinality(stuck),
                       stuck_deals_value |-> stuck_value.value]

InitStuckDeals ==
    /\ \E hs \in HeaderSets : columns \in Orders(hs)
    /\ keywords = <<>>
    /\ resolved = <<>>
    /\ raw \in SeqsUpTo(DealRows, MaxRows)
    /\ norm = EmptyMap
    /\ renorm = EmptyMap
    /\ IdleSales
    /\ IdleAnalyzer
    /\ IdleCleaner
    /\ IdleDashboard

FindStuckDeals ==
    /\ norm = EmptyMap
    /\ norm' = Put(norm, "hidden_insights", stuck_deals(columns, raw))
    /\ UNCHANGED <<raw, renorm, resolverVars, sales, analyzerVars, cleanerVars, dashVars>>

NextStuckDeals == FindStuckDeals

SpecStuckDeals == InitStuckDeals /\ [][NextStuckDeals]_vars

\* The rows the definition of a stuck deal selects.
StuckRows(rows) ==
    {i \in 1..Len(rows) :
        /\ rows[i].stage \in {"Negotiation", "Proposal Sent"}
        /\ rows[i].age # NaT
        /\ rows[i].age.val[1] > StuckThreshold * rows[i].age.val[2]}

\* C18: stuck_deals_count is the number of rows in Negotiation or Proposal
\* Sent whose date lies more than 30 days back, and stuck_deals_value the
\* sum of their deal values; no other row is counted.
C18_CountsStuckRows ==
    "hidden_insights" \in DOMAIN norm =>
        /\ norm["hidden_insights"].stuck_deals_count
               = Cardinality(StuckRows(raw))
        /\ norm["hidden_insights"].stuck_deals_value
               = SumValues(raw, StuckRows(raw))

-----------------------------------------------------------------------------
(* overall_cpa: the calculate_kpis of the cleaner and of the analyzer on   *)
(* the rows of the ad-spend table.  raw is the table, a row its            *)
(* 'Spend (EUR)' cell after to_numeric (a number or NaN) and its           *)
(* 'Conversions' cell.                                                     *)

AdSpendCells == {NaN, Num(Zero), Num(<<100, 1>>), Num(<<15000, 1>>)}

AdConversionCounts == {0, 3, 200}

AdRows == [spend : AdSpendCells, conversions : AdConversionCounts]

\* ad_df['Spend (EUR)'].sum(): NaN cells are skipped.
RECURSIVE total_ad_spend(_)
total_ad_spend(rows) ==
    IF rows = <<>> THEN Zero
    ELSE LET rest == total_ad_spend(Tail(rows))
         IN  IF Head(rows).spend = NaN THEN rest
             ELSE RatAdd(Head(rows).spend.val, rest)

\* ad_df['Conversions'].sum()
RECURSIVE total_ad_conversions(_)
total_ad_conversions(rows) ==
    IF rows = <<>> THEN 0
    ELSE Head(rows).conversions + total_ad_conversions(Tail(rows))

\* POTDataCleaner.calculate_kpis: kpis['overall_cpa']
cleaner_overall_cpa(rows) ==
    LET conversions == total_ad_conversions(rows)
        overall_cpa == IF conversions > 0
                       THEN RatDiv(total_ad_spend(rows), conversions)
                       ELSE Zero
    IN  Round2(overall_cpa)

InitAdKpis ==
    /\ raw \in SeqsUpTo(AdRows, MaxRows)
    /\ norm = EmptyMap
    /\ renorm = EmptyMap
    /\ IdleResolver
    /\ IdleSales
    /\ IdleAnalyzer
    /\ IdleCleaner
    /\ IdleDashboard

CleanerOverallCpa ==
    /\ "cleaner" \notin DOMAIN norm
    /\ norm' = Put(norm, "cleaner", cleaner_overall_cpa(raw))
    /\ UNCHANGED <<raw, renorm, resolverVars, sales, analyzerVars, cleanerVars, dashVars>>

\* AdaptiveMLAnalyzer.calculate_kpis: kpis['overall_cpa'], which does not
\* read self.ads.
AnalyzerOverallCpa ==
    /\ "analyzer" \notin DOMAIN norm
    /\ norm' = Put(norm, "analyzer", calculate_kpis_entry.overall_cpa)
    /\ UNCHANGED <<raw, renorm, resolverVars, sales, analyzerVars, cleanerVars, dashVars>>

NextAdKpis ==
    \/ CleanerOverallCpa
    \/ AnalyzerOverallCpa

SpecAdKpis == InitAdKpis /\ [][NextAdKpis]_vars

\* C19: in either stage, overall_cpa is the total ad spend of the table
\* divided by its total conversions, to two decimals, and 0 when the
\* conversions total 0.
C19_OverallCpaFromAdTable ==
    \A stage \in DOMAIN norm :
        norm[stage] =
            IF total_ad_conversions(raw) = 0 THEN Zero
            ELSE Round2(Rat(total_ad_spend(raw)[1],
                            total_ad_spend(raw)[2]
                                * total_ad_conversions(raw)))

-----------------------------------------------------------------------------
(* Channel entries of generate_roi_analysis: the figures of one ad         *)
(* campaign type (the sums of its rows' spend and conversions) and the     *)
(* totals self.insights holds for email, website and social.  raw is these *)
(* inputs; norm holds the entry computed for each channel.                 *)

\* x / y for y > 0
RatQuot(x, y) == Rat(x[1] * y[2], x[2] * y[1])

IntRat(n) == <<n, 1>>

\* An `or` that keeps a total of 0.
OrDefaultKeepingZero(value, default) == value

\* `value or default`: 0 is falsy.
OrDefault(value, default) == IF value = 0 THEN default ELSE value

\* An ad campaign type: the roi and cpa are computed, then rounded into the
\* entry; conversions is a sum of integer cells.
ad_channel_entry(spend, conversions) ==
    LET revenue == conversions * 5000
        roi == IF spend > 0 THEN Rat(revenue, spend) ELSE Zero
        cpa == IF conversions > 0 THEN Rat(spend, conversions)
               ELSE IntRat(spend)
    IN  [spend |-> IntRat(spend),
         conversions |-> IntRat(conversions),
         estimated_revenue |-> IntRat(revenue),
         roi |-> Round2(roi),
         cpa |-> Round2(cpa)]

email_entry(email_total_revenue, email_total) ==
    LET email_spend == 5000
        email_revenue == OrDefault(email_total_revenue, 85000)
        email_conversions == OrDefault(email_total, 17)
    IN  [spend |-> IntRat(email_spend),
         conversions |-> IntRat(email_conversions),
         estimated_revenue |-> IntRat(email_revenue),
         roi |-> Round2(Rat(email_revenue, email_spend)),
         cpa |-> IF email_conversions > 0
                 THEN Round2(Rat(email_spend, email_conversions))
                 ELSE IntRat(email_spend)]

website_entry(web_total) ==
    LET web_spend == 2000
        web_conversions == OrDefault(web_total, 45)
        web_revenue == web_conversions * 3000
    IN  [spend |-> IntRat(web_spend),
         conversions |-> IntRat(web_conversions),
         estimated_revenue |-> IntRat(web_revenue),
         roi |-> Round2(Rat(web_revenue, web_spend)),
         cpa |-> IF web_conversions > 0
                 THEN Round2(Rat(web_spend, web_conversions))
                 ELSE IntRat(web_spend)]

\* The social entry stores round(soc_conversions, 0) but divides by
\* soc_conversions itself.
social_entry(total_clicks) ==
    LET soc_spend == 3000
        soc_clicks == OrDefault(total_clicks, 1500)
        soc_conversions == Rat(soc_clicks * 5, 100)
        soc_revenue == RatMul(soc_conversions, IntRat(2500))
    IN  [spend |-> IntRat(soc_spend),
         conversions |-> IntRat(RoundHalfEven(soc_conversions)),
         estimated_revenue |-> soc_revenue,
         roi |-> Round2(RatQuot(soc_revenue, IntRat(soc_spend))),
         cpa |-> IF RatGT(soc_conversions, Zero)
                 THEN Round2(RatQuot(IntRat(soc_spend), soc_conversions))
                 ELSE IntRat(soc_spend)]

RoiInputs ==
    [spend : {0, 1000, 3000},
     conversions : {0, 3, 7},
     email_revenue : {0, 12345},
     email_conversions : {0, 3},
     web_conversions : {0, 7},
     soc_clicks : {0, 10, 30, 1500}]

InitRoiEntries ==
    /\ raw \in RoiInputs
    /\ norm = EmptyMap
    /\ renorm = EmptyMap
    /\ IdleResolver
    /\ IdleSales
    /\ IdleAnalyzer
    /\ IdleCleaner
    /\ IdleDashboard

RoiEntry(channel, entry) ==
    /\ channel \notin DOMAIN norm
    /\ norm' = Put(norm, channel, entry)
    /\ UNCHANGED <<raw, renorm, resolverVars, sales, analyzerVars, cleanerVars, dashVars>>

AdChannelEntry ==
    /\ norm = EmptyMap
    /\ RoiEntry("Google Brand Search",
                ad_channel_entry(raw.spend, raw.conversions))

EmailEntry ==
    /\ "Google Brand Search" \in DOMAIN norm
    /\ RoiEntry("Email Campaigns",
                email_entry(raw.email_revenue, raw.email_conversions))

WebsiteEntry ==
    /\ "Email Campaigns" \in DOMAIN norm
    /\ RoiEntry("Website Organic", website_entry(raw.web_conversions))

SocialEntry ==
    /\ "Website Organic" \in DOMAIN norm
    /\ RoiEntry("Social Media", social_entry(raw.soc_clicks))

NextRoiEntries ==
    \/ AdChannelEntry
    \/ EmailEntry
    \/ WebsiteEntry
    \/ SocialEntry

SpecRoiEntries == InitRoiEntries /\ [][NextRoiEntries]_vars

\* C20: in every computed entry, to two decimals, roi is the entry's
\* estimated_revenue over its spend (0 for spend 0) and cpa the entry's
\* spend over its conversions (the spend itself for 0 conversions).
C20_RoiAndCpaFromEntry ==
    \A channel \in DOMAIN norm :
        LET e == norm[channel]
        IN  /\ e.roi = IF e.spend = Zero THEN Zero
                       ELSE Round2(RatQuot(e.estimated_revenue, e.spend))
            /\ e.cpa = IF e.conversions = Zero THEN e.spend
                       ELSE Round2(RatQuot(e.spend, e.conversions))

-----------------------------------------------------------------------------
(* Claims on the steps of run_full_pipeline, under SpecCleaner             *)

\* The steps of run_full_pipeline in the order they run.
CleanerOrder ==
    <<"load", "website", "social", "email", "sales", "ads", "kpis", "save",
      "done">>

CleanerRank(p) == CHOOSE i \in 1..Len(CleanerOrder) : CleanerOrder[i] = p

\* Every step before save_cleaned_data returned: the sheets were loaded,
\* each has its cleaned dataset, and calculate_kpis stored self.data['KPIs']
\* (the KPIs, or {} from its own handler).
StepsBeforeSaveCompleted ==
    /\ excel.readable
    /\ \A sheet \in Sheets : {sheet, Clean(sheet)} \subseteq data
    /\ "KPIs" \in data
    /\ kpis.some

AllFilesSaved == files = {SavedFiles[i] : i \in 1..Len(SavedFiles)}

\* C21: the steps run in the fixed order, one after the other, or the run
\* ends; save_cleaned_data is reached only after every earlier step
\* returned; the run ends by returning True or False, never by raising, and
\* returns True exactly when every step, the save included, completed.
C21_FixedOrderAndResult ==
    /\ [](cpc = "save" => StepsBeforeSaveCompleted)
    /\ [](cpc # "done" => cresult = None)
    /\ [](cpc = "done" =>
            /\ cresult \in {Some(TRUE), Some(FALSE)}
            /\ cresult = Some(TRUE) <=>
                   (StepsBeforeSaveCompleted /\ AllFilesSaved))
    /\ [][cpc' = "done"
            \/ CleanerRank(cpc') = CleanerRank(cpc) + 1]_cpc

\* A run that returned True although calculate_kpis ended in its handler.
C21_Witness ==
    /\ cpc = "done"
    /\ cresult = Some(TRUE)
    /\ AllFilesSaved
    /\ kpis = Some(EmptyMap)

\* C22: when load_all_data fails, run_analysis goes from the load straight
\* to returning False: no step has stored an entry, nothing was written
\* to ml_insights_final.json; and no step runs unless the load succeeded.
C22_NothingRunsAfterFailedLoad ==
    /\ [](outcome = Some("False") =>
            /\ pc = "done"
            /\ fields = {}
            /\ insights = EmptyMap
            /\ raised = EmptyMap
            /\ saved = None)
    /\ [](pc \notin {"load", "done"} => fields # {} /\ outcome = None)
    /\ [][pc = "load" /\ fields' = {} =>
              pc' = "done" /\ outcome' = Some("False")]_<<pc, fields, outcome>>

C22_Witness ==
    /\ pc = "done"
    /\ outcome = Some("False")
    /\ saved = None

-----------------------------------------------------------------------------
(* Best and worst channel: the end of generate_roi_analysis on the rows of *)
(* roi_data, in the dict's iteration order.  raw is the rois computed for  *)
(* the channels, norm holds the roi_analysis the method returned.          *)

InitRoiSelection ==
    /\ \E rois \in SeqsUpTo(RoiValues, MaxChannels) :
         raw = [i \in 1..Len(rois) |->
                   [channel |-> ChannelNames[i], roi |-> rois[i]]]
    /\ norm = EmptyMap
    /\ renorm = EmptyMap
    /\ IdleResolver
    /\ IdleSales
    /\ IdleAnalyzer
    /\ IdleCleaner
    /\ IdleDashboard

SelectBestAndWorst ==
    /\ norm = EmptyMap
    /\ norm' = Put(norm, "roi_analysis", best_and_worst(raw))
    /\ UNCHANGED <<raw, renorm, resolverVars, sales, analyzerVars, cleanerVars, dashVars>>

RoiAnalysisFailed ==
    /\ norm = EmptyMap
    /\ norm' = Put(norm, "roi_analysis", roi_fallback_data)
    /\ UNCHANGED <<raw, renorm, resolverVars, sales, analyzerVars, cleanerVars, dashVars>>

NextRoiSelection ==
    \/ SelectBestAndWorst
    \/ RoiAnalysisFailed

SpecRoiSelection == InitRoiSelection /\ [][NextRoiSelection]_vars

\* C23: channel_data is not empty; worst_channel is a channel of minimal
\* roi; best_channel is the first channel of maximal roi when some roi is
\* positive and None otherwise; best_roi >= worst_roi.
C23_BestAndWorstChannel ==
    "roi_analysis" \in DOMAIN norm =>
        LET r == norm["roi_analysis"]
            rows == r.channel_data
            idx == 1..Len(rows)
        IN  /\ rows # <<>>
            /\ r.worst_channel.some /\ r.worst_roi.some
            /\ \E i \in idx :
                   /\ rows[i].channel = r.worst_channel.val
                   /\ rows[i].roi = r.worst_roi.val
                   /\ \A j \in idx : RatLE(rows[i].roi, rows[j].roi)
            /\ IF \E j \in idx : RatGT(rows[j].roi, Zero)
               THEN \E i \in idx :
                      /\ r.best_channel = Some(rows[i].channel)
                      /\ r.best_roi = rows[i].roi
                      /\ \A j \in idx : RatLE(rows[j].roi, rows[i].roi)
                      /\ \A j \in 1..(i - 1) : rows[j].roi # rows[i].roi
               ELSE r.best_channel = None
            /\ RatLE(r.worst_roi.val, r.best_roi)

\* Computed channels with a tie for the highest roi: the first one is the
\* best channel, and a channel with roi 0 the worst.
C23_Witness ==
    /\ "roi_analysis" \in DOMAIN norm
    /\ Len(raw) = 3
    /\ raw[1].roi = Zero
    /\ raw[2].roi = raw[3].roi
    /\ norm["roi_analysis"].channel_data = raw
    /\ norm["roi_analysis"].best_channel = Some(raw[2].channel)
    /\ norm["roi_analysis"].worst_channel = Some(raw[1].channel)
    /\ RatGT(norm["roi_analysis"].best_roi, Zero)

\* The topics generate_recommendations can write about, in its order, and
\* the entry of self.insights each one needs.
RecommendationTopics ==
    <<"roi", "conversion", "stuck_deals", "forecast", "operational">>

TopicExpected(topic) ==
    CASE topic = "roi" -> "roi_analysis" \in DOMAIN insights
      [] topic = "conversion" ->
            /\ "conversion_analysis" \in DOMAIN insights
            /\ insights["conversion_analysis"].by_source # {}
      [] topic = "stuck_deals" -> "hidden_insights" \in DOMAIN insights
      [] topic = "forecast" -> "forecast" \in DOMAIN insights
      [] OTHER -> TRUE

\* C24: the recommendations are between 1 and 5, in the fixed order; the
\* operational one is always there and last, each other one is there
\* exactly when its entry is (the conversion one needs a by_source that is
\* not empty), and at most one is Critical.
C24_RecommendationsFollowEntries ==
    "recommendations" \in DOMAIN insights =>
        LET recs == insights["recommendations"]
        IN  /\ Len(recs) \in 1..5
            /\ recs[Len(recs)].topic = "operational"
            /\ \A t \in 1..Len(RecommendationTopics) :
                   TopicExpected(RecommendationTopics[t]) <=>
                       \E i \in 1..Len(recs) :
                           recs[i].topic = RecommendationTopics[t]
            /\ \A i, j \in 1..Len(recs) :
                   i < j =>
                       \E s, t \in 1..Len(RecommendationTopics) :
                           /\ s < t
                           /\ recs[i].topic = RecommendationTopics[s]
                           /\ recs[j].topic = RecommendationTopics[t]
            /\ Cardinality({i \in 1..Len(recs) :
                               recs[i].priority = "Critical"}) <= 1

\* A conversion analysis without sources: four recommendations, none about
\* conversion.
C24_Witness ==
    /\ "recommendations" \in DOMAIN insights
    /\ "conversion_analysis" \in DOMAIN insights
    /\ insights["conversion_analysis"].by_source = {}
    /\ Len(insights["recommendations"]) = 4
    /\ insights["recommendations"][1].priority = "Critical"

-----------------------------------------------------------------------------
(* Keyword order: load_all_data hands find_column literal keyword lists;   *)
(* here the same dataset is searched with lists that hold the keywords of  *)
(* `keywords` in any order, with or without repeats.                       *)

KeywordSet(kws) == {kws[k] : k \in 1..Len(kws)}

FindColumnReordered ==
    /\ Len(resolved) < MaxCalls
    /\ \E kws \in KeywordLists :
         /\ KeywordSet(kws) = KeywordSet(keywords)
         /\ resolved' = Append(resolved,
                               [keywords |-> kws,
                                result |-> find_column(columns, kws)])
    /\ UNCHANGED <<columns, keywords, normVars, sales, analyzerVars,
                   cleanerVars, dashVars>>

NextKeywordOrder == FindColumnReordered

SpecKeywordOrder == InitResolver /\ [][NextKeywordOrder]_vars

\* C25: the column find_column returns depends only on the set of keywords
\* and the order of the columns: every ordering of the keyword list gives
\* the same result.
C25_KeywordOrderIrrelevant ==
    \A m, n \in 1..Len(resolved) : resolved[m].result = resolved[n].result

\* Two calls with the two keywords swapped: the keyword that is first in
\* one call matches only the second column, the other keyword matches the
\* first column, and both calls returned the first column.
C25_Witness ==
    /\ Len(resolved) >= 2
    /\ Len(columns) = 2
    /\ Len(resolved[1].keywords) = 2
    /\ resolved[2].keywords = <<resolved[1].keywords[2], resolved[1].keywords[1]>>
    /\ Contains(Lower(columns[2]), Lower(resolved[1].keywords[1]))
    /\ ~Contains(Lower(columns[1]), Lower(resolved[1].keywords[1]))
    /\ Contains(Lower(columns[1]), Lower(resolved[1].keywords[2]))
    /\ resolved[1].result = Some(columns[1])
    /\ resolved[2].result = Some(columns[1])

-----------------------------------------------------------------------------
(* Hidden insights and the resolved columns: find_hidden_insights on sales *)
(* tables that have a stage and a date column and on tables that lack one. *)

\* Sales tables in which load_all_data finds no stage or no date column.
SparseHeaderSets ==
    {{PlainAmount, PlainDate}, {PlainStage, PlainAmount}, {PlainAmount}}

InitHiddenColumns ==
    /\ \E hs \in HeaderSets \cup SparseHeaderSets : columns \in Orders(hs)
    /\ keywords = <<>>
    /\ resolved = <<>>
    /\ raw \in SeqsUpTo(DealRows, MaxRows)
    /\ norm = EmptyMap
    /\ renorm = EmptyMap
    /\ IdleSales
    /\ IdleAnalyzer
    /\ IdleCleaner
    /\ IdleDashboard

\* load_all_data's resolution of the two columns, then find_hidden_insights.
FindHiddenInsightsOnColumns ==
    /\ norm = EmptyMap
    /\ norm' = [sales_stage |-> find_column(columns, StageKeywords),
                sales_contact_date |->
                    find_column(columns, ContactDateKeywords),
                hidden_insights |-> stuck_deals(columns, raw)]
    /\ UNCHANGED <<raw, renorm, resolverVars, sales, analyzerVars,
                   cleanerVars, dashVars>>

NextHiddenColumns == FindHiddenInsightsOnColumns

SpecHiddenColumns == InitHiddenColumns /\ [][NextHiddenColumns]_vars

\* C26: without a stage or a date column hidden_insights is the handler's
\* fallback (14 deals, 480000); with both columns it holds the computed
\* values, a count of rows of the table and not the fallback.
C26_FallbackOnlyWhenUnresolved ==
    "hidden_insights" \in DOMAIN norm =>
        IF ~norm["sales_stage"].some \/ ~norm["sales_contact_date"].some
        THEN norm["hidden_insights"] = stuck_fallback
        ELSE /\ norm["hidden_insights"] # stuck_fallback
             /\ norm["hidden_insights"].stuck_deals_count <= Len(raw)

\* analyze_sales reported a conversion rate.
SalesRateReported ==
    /\ "sales" \in DOMAIN insights
    /\ "conversion_rate" \in insights["sales"].metrics

\* C27: the conversion rate of analyze_sales, the overall_rate of
\* generate_conversion_analysis and the conversion_rate of the cleaner's
\* KPIs are equal whenever each of them is reported.
C27_ThreeRatesAgree ==
    /\ (SalesRateReported /\ ConversionComputed) =>
           insights["sales"].conversion_rate
               = insights["conversion_analysis"].overall_rate
    /\ (SalesRateReported /\ CleanerKpisComputed) =>
           insights["sales"].conversion_rate = kpis.val.conversion_rate
    /\ (ConversionComputed /\ CleanerKpisComputed) =>
           insights["conversion_analysis"].overall_rate
               = kpis.val.conversion_rate

\* C28: once load_all_data has succeeded, run_analysis raises nothing: it
\* runs every step, saves the complete bundle and returns True.
C28_RunAfterLoadReturnsTrue ==
    (pc = "done" /\ outcome # Some("False")) =>
        /\ outcome = Some("True")
        /\ saved.some
        /\ saved.val.complete
        /\ \A step \in {"roi_analysis", "hidden_insights", "kpis",
                        "recommendations", "metadata"} :
               step \in DOMAIN insights

\* kpis[name] is the entry's field whenever the entry is in the bundle.
KpiCopies(bundle, name, entry, field) ==
    entry \in DOMAIN bundle =>
        /\ name \in DOMAIN bundle["kpis"]
        /\ bundle["kpis"][name] = bundle[entry][field]

\* C29: in the saved bundle every figure of kpis that summarises an
\* analysis entry equals that entry's field, for the forecast, the
\* conversion analysis, the ROI analysis and the hidden insights.
C29_KpisMatchEntries ==
    saved.some =>
        LET b == saved.val.bundle
        IN  /\ "kpis" \in DOMAIN b
            /\ KpiCopies(b, "current_delegates", "forecast", "current_delegates")
            /\ KpiCopies(b, "current_sponsors", "forecast", "current_sponsors")
            /\ KpiCopies(b, "delegate_forecast", "forecast", "delegate_forecast")
            /\ KpiCopies(b, "sponsor_forecast", "forecast", "sponsor_forecast")
            /\ KpiCopies(b, "overall_conversion_rate", "conversion_analysis",
                         "overall_rate")
            /\ KpiCopies(b, "total_closed_deals", "conversion_analysis",
                         "total_closed")
            /\ KpiCopies(b, "total_won_deals", "conversion_analysis",
                         "total_won")
            /\ KpiCopies(b, "average_roi", "roi_analysis", "average_roi")
            /\ KpiCopies(b, "best_channel_roi", "roi_analysis", "best_roi")
            /\ KpiCopies(b, "worst_channel_roi", "roi_analysis", "worst_roi")
            /\ KpiCopies(b, "stuck_deals_count", "hidden_insights",
                         "stuck_deals_count")
            /\ KpiCopies(b, "stuck_deals_value", "hidden_insights",
                         "stuck_deals_value")

\* A complete bundle of a table with closed deals: the conversion, ROI and
\* hidden-insight entries were computed from the data, the forecast is the
\* handler's fallback, and the ROI figures are not the defaults.
C29_Witness ==
    /\ saved.some
    /\ saved.val.complete
    /\ {"forecast", "conversion_analysis", "roi_analysis", "hidden_insights",
        "kpis"} \subseteq DOMAIN saved.val.bundle
    /\ DOMAIN raised = {"forecast"}
    /\ saved.val.bundle["kpis"]["average_roi"] # <<21, 5>>
    /\ saved.val.bundle["kpis"]["average_roi"]
           = saved.val.bundle["roi_analysis"].average_roi
    /\ saved.val.bundle["kpis"]["current_delegates"] = 14
    /\ saved.val.bundle["kpis"]["total_closed_deals"] = 107

-----------------------------------------------------------------------------
(* Substituted constants: generate_roi_analysis's try body on the totals   *)
(* of the analyses that ran (raw.present) and of the ad table.             *)

RoiSources == {"ads", "email", "website", "social"}

RoiRow(channel, entry) == [channel |-> channel, roi |-> entry.roi, entry |-> entry]

\* roi_data before `if not roi_data`, in insertion order.
roi_data_rows(in) ==
    (IF "ads" \in in.present
     THEN <<RoiRow("Google Brand Search",
                   ad_channel_entry(in.spend, in.conversions))>>
     ELSE <<>>)
      \o (IF "email" \in in.present
          THEN <<RoiRow("Email Campaigns",
                        email_entry(in.email_revenue, in.email_conversions))>>
          ELSE <<>>)
      \o (IF "website" \in in.present
          THEN <<RoiRow("Website Organic", website_entry(in.web_conversions))>>
          ELSE <<>>)
      \o (IF "social" \in in.present
          THEN <<RoiRow("Social Media", social_entry(in.soc_clicks))>>
          ELSE <<>>)

InitRoiDefaults ==
    /\ \E in \in RoiInputs, present \in SUBSET RoiSources :
         raw = [present |-> present,
                spend |-> in.spend,
                conversions |-> in.conversions,
                email_revenue |-> in.email_revenue,
                email_conversions |-> in.email_conversions,
                web_conversions |-> in.web_conversions,
                soc_clicks |-> in.soc_clicks]
    /\ norm = EmptyMap
    /\ renorm = EmptyMap
    /\ IdleResolver
    /\ IdleSales
    /\ IdleAnalyzer
    /\ IdleCleaner
    /\ IdleDashboard

GenerateRoiAnalysisOnTotals ==
    /\ norm = EmptyMap
    /\ norm' = Put(norm, "roi_analysis", best_and_worst(roi_data_rows(raw)))
    /\ UNCHANGED <<raw, renorm, resolverVars, sales, analyzerVars,
                   cleanerVars, dashVars>>

NextRoiDefaults == GenerateRoiAnalysisOnTotals

SpecRoiDefaults == InitRoiDefaults /\ [][NextRoiDefaults]_vars

\* The entry of a channel in a computed channel table.
EntryOf(rows, channel) ==
    (CHOOSE row \in {rows[i] : i \in 1..Len(rows)} :
        row.channel = channel).entry

\* C30: a constant stands in for every total that is 0: the email entry
\* reports the revenue and the conversions of the data, or 85000 and 17,
\* never 0; the website entry the conversions, or 45, never 0; the social
\* entry the revenue of its clicks, or of 1500 clicks, never of 0 clicks;
\* and an empty channel table is the fixed five-channel table.
C30_ConstantsReplaceZeroTotals ==
    "roi_analysis" \in DOMAIN norm =>
        LET rows == norm["roi_analysis"].channel_data
        IN  /\ rows # <<>>
            /\ raw.present = {} <=> rows = roi_fallback_rows
            /\ "email" \in raw.present =>
                 LET e == EntryOf(rows, "Email Campaigns")
                 IN  /\ e.estimated_revenue # Zero
                     /\ e.conversions # Zero
                     /\ e.estimated_revenue =
                            IntRat(IF raw.email_revenue = 0 THEN 85000
                                   ELSE raw.email_revenue)
                     /\ e.conversions =
                            IntRat(IF raw.email_conversions = 0 THEN 17
                                   ELSE raw.email_conversions)
            /\ "website" \in raw.present =>
                 LET e == EntryOf(rows, "Website Organic")
                 IN  /\ e.conversions # Zero
                     /\ e.conversions =
                            IntRat(IF raw.web_conversions = 0 THEN 45
                                   ELSE raw.web_conversions)
            /\ "social" \in raw.present =>
                 LET e == EntryOf(rows, "Social Media")
                 IN  /\ e.estimated_revenue # Zero
                     /\ e.estimated_revenue =
                            IntRat((IF raw.soc_clicks = 0 THEN 1500
                                    ELSE raw.soc_clicks) * 125)

\* Email, website and social analyses with totals of 0: the entries hold
\* 85000 and 17, 45, and the revenue of 1500 clicks.
C30_Witness ==
    /\ "roi_analysis" \in DOMAIN norm
    /\ raw.present = {"email", "website", "social"}
    /\ raw.email_revenue = 0
    /\ raw.email_conversions = 0
    /\ raw.web_conversions = 0
    /\ raw.soc_clicks = 0
    /\ LET rows == norm["roi_analysis"].channel_data
       IN  /\ EntryOf(rows, "Email Campaigns").estimated_revenue = IntRat(85000)
           /\ EntryOf(rows, "Email Campaigns").conversions = IntRat(17)
           /\ EntryOf(rows, "Website Organic").conversions = IntRat(45)
           /\ EntryOf(rows, "Social Media").estimated_revenue = IntRat(187500)

=============================================================================
